---- MODULE Spec2Model ----
(***************************************************************************)
(* A model of the recipe recommendation backend (app/services/agent.py,    *)
(* app/services/gemini.py, app/services/vector_db.py, app/main.py).        *)
(*                                                                         *)
(* Every request is a thread of the endpoint's pool.  A thread has a       *)
(* program counter pc, a stack of return labels, and the locals of the     *)
(* functions it is in.  The module globals of agent.py are shared by all   *)
(* threads.  External collaborators (Gemini Vision, the embedding model,   *)
(* the vector store, the agent's LLM) answer nondeterministically.         *)
(*                                                                         *)
(* Spec serves one request with every fault, SpecConc several requests at  *)
(* once with none.  SpecPure applies the functions of the search on their  *)
(* own, each to one input of a bounded set: the ranker and its scores, the *)
(* filter builder with the store's search over an ingested collection      *)
(* (scripts/ingest_recipes.py), the tag inference, and the query text.     *)
(* SpecIngest is one run of the ingestion script, with upserts and         *)
(* embedding calls that may fail; SpecIngestLive adds that the script      *)
(* keeps running.  SpecEmbed is the threads of the pool loading the        *)
(* embedding model lazily (services/gemini.py).                            *)
(***************************************************************************)
EXTENDS Integers, Sequences, FiniteSets, TLC

(***************************************************************************)
(* Bounds of the model.                                                    *)
(***************************************************************************)
\* Number of requests served concurrently in SpecConc.
NumRequests == 2

\* Longest list of hits handed to the ranker in SpecPure.
MaxHits == 3

\* Largest number of matched ingredients, and of recipe ingredients, the
\* overlap score is computed for in SpecPure.
MaxMatches == 60

MaxTotal == 50

\* Longest ingredient list infer_dietary_tags is applied to in SpecPure.
MaxIngredients == 2

\* The longest recipe of the corpus, in steps.
LongestRecipe == 1001

\* Calls of generate_embedding one thread of the pool makes at most.
MaxEmbedCalls == 2

\* Recipes in the file ingest reads, at most.
MaxRecipes == 3

\* The largest --batch-size and --embedding-batch-size given.
MaxBatchSize == 3

Requests == 1..NumRequests

(***************************************************************************)
(* Program constants.                                                      *)
(***************************************************************************)
_MAX_RETRIES == 3

_BASE_BACKOFF == 2

\* A bug: another top_k.
TopKFive == 10 \div 2

\* top_k passed by _search_with_preferences to search_recipes.
TOP_K == 10

\* max_iterations of the AgentExecutor.
max_iterations == 5

(***************************************************************************)
(* Strings.  TLC strings support Len, SubSeq and \o.                       *)
(***************************************************************************)
\* sub in s (Python's substring test).
Contains(s, sub) ==
    \E i \in 1..(Len(s) - Len(sub) + 1) : SubSeq(s, i, i + Len(sub) - 1) = sub

UpperChars == "ABCDEFGHIJKLMNOPQRSTUVWXYZ"

LowerChars == "abcdefghijklmnopqrstuvwxyz"

LowerChar(c) ==
    IF \E i \in 1..26 : SubSeq(UpperChars, i, i) = c
    THEN LET i == CHOOSE j \in 1..26 : SubSeq(UpperChars, j, j) = c
         IN  SubSeq(LowerChars, i, i)
    ELSE c

RECURSIVE Lower(_)
\* str.lower()
Lower(s) ==
    IF Len(s) = 0 THEN ""
    ELSE LowerChar(SubSeq(s, 1, 1)) \o Lower(SubSeq(s, 2, Len(s)))

RECURSIVE Join(_, _)
\* sep.join(parts)
Join(sep, parts) ==
    IF Len(parts) = 0 THEN ""
    ELSE IF Len(parts) = 1 THEN parts[1]
    ELSE parts[1] \o sep \o Join(sep, Tail(parts))

RECURSIVE Strip(_)
\* str.strip() for the blank character
Strip(s) ==
    IF Len(s) = 0 THEN ""
    ELSE IF SubSeq(s, 1, 1) = " " THEN Strip(SubSeq(s, 2, Len(s)))
    ELSE IF SubSeq(s, Len(s), Len(s)) = " " THEN Strip(SubSeq(s, 1, Len(s) - 1))
    ELSE s

\* Python's None for the Optional[str] fields.
None == "<None>"

\* Truthiness of an Optional[str]: None and "" are falsy.
Truthy(s) == s # None /\ s # ""

(***************************************************************************)
(* Inputs and answers of the external collaborators.                       *)
(***************************************************************************)
\* Uploaded images; "junk" is bytes PIL cannot open (as in test_backend.py).
Images == {"imgA", "imgB", "junk"}

\* UserPreferences() with every default.
DefaultPreferences ==
    [dietary_restrictions |-> <<>>, cuisine_preferences |-> <<>>,
     allergies |-> <<>>, meal_type |-> None, skill_level |-> None,
     additional_prompt |-> None]

PrefChoices ==
    {DefaultPreferences,
     [dietary_restrictions |-> <<"Vegetarian ">>,
      cuisine_preferences |-> <<"italian">>,
      allergies |-> <<"peanuts">>, meal_type |-> None,
      skill_level |-> "beginner", additional_prompt |-> "quick"]}

\* Ingredient names Gemini Vision may report for an image.
IngredientLists == {<<>>, <<"egg", "flour">>}

\* Messages of the errors the Gemini API may raise.
ErrorMessages ==
    {"429 RESOURCE_EXHAUSTED", "504 Deadline Exceeded",
     "401 UNAUTHENTICATED", "400 INVALID_ARGUMENT"}

\* An exception in flight: its message, the call that raised it, and the
\* attempt index of the resilient caller it was raised in (0 elsewhere).
Exc(msg, src, n) == [msg |-> msg, src |-> src, n |-> n]

NoExc == Exc("", "none", 0)

NoVal == [kind |-> "none"]

\* No function is applied on its own.
NoCall == [fn |-> "none"]

(***************************************************************************)
(* gemini.py: the resilient caller.                                        *)
(***************************************************************************)
RetryableCodes ==
    {"429", "resource_exhausted", "503", "500", "unavailable", "deadline"}

\* A bug: every error is retried.
IsRetryableAlways(exc) == TRUE

_is_retryable(exc) ==
    LET exc_str == Lower(exc.msg)
    IN  \E code \in RetryableCodes : Contains(exc_str, code)

\* A bug: a constant backoff.
BackoffWaitConstant(attempt) == _BASE_BACKOFF * 2

\* wait = _BASE_BACKOFF * (2 ** attempt)
BackoffWait(attempt) == _BASE_BACKOFF * (2 ^ attempt)

\* A bug: the attempt index is not looked at.
ShouldRetryUnbounded(attempt, exc) == _is_retryable(exc)

\* The except clause of analyze_image: sleep and go round, or re-raise.
ShouldRetry(attempt, exc) == attempt < _MAX_RETRIES - 1 /\ _is_retryable(exc)

(***************************************************************************)
(* State.                                                                  *)
(***************************************************************************)
VARIABLES
    USE_AGENT,              \* settings.USE_AGENT
    _current_image_bytes,   \* agent.py module global
    _current_preferences,   \* agent.py module global
    th,                     \* th[r]: the thread serving request r
    call,                   \* a function applied on its own: name, arguments
    ret,                    \* what that application returned or raised
    _embedder,              \* gemini.py module global: 0 is None, k the
                            \* k-th SentenceTransformer constructed
    constructed,            \* SentenceTransformer instances constructed
    ge,                     \* ge[r]: thread r inside generate_embedding
    ing                     \* the frame of ingest_recipes.ingest

vars == <<USE_AGENT, _current_image_bytes, _current_preferences, th, call, ret,
          _embedder, constructed, ge, ing>>

\* A thread before its request arrives.
IdleThread ==
    [pc |-> "idle", stack |-> <<>>,
     image_bytes |-> "", preferences |-> DefaultPreferences,
     img |-> "", attempt |-> 0, waits |-> <<>>, errors |-> <<>>,
     rdp_ingredient_names |-> <<>>,
     ingredient_names |-> <<>>, swp_preferences |-> DefaultPreferences,
     query_text |-> "", query_vector |-> NoVal, db_filter |-> <<>>,
     client |-> "none", search_kwargs |-> NoVal, results |-> <<>>,
     pending |-> NoExc,
     iterations |-> 0, output |-> NoVal, in_executor |-> FALSE,
     retval |-> NoVal, exc |-> NoExc, response |-> NoVal,
     trace |-> <<>>, fallback |-> FALSE]

\* The application of a single function, of no request.
Applied == <<call, ret>>

\* The lazily loaded embedding model and the threads asking for it.
Loader == <<_embedder, constructed, ge>>

\* th with thread r replaced by rec.
Upd(r, rec) ==
    th' = [th EXCEPT ![r] = rec] /\ UNCHANGED <<Applied, Loader, ing>>

Globals == <<USE_AGENT, _current_image_bytes, _current_preferences>>

\* Call a function: push the label the caller resumes at.
Call(t, entry, resume) == [t EXCEPT !.pc = entry, !.stack = <<resume>> \o @]

Log(t, event) == [t EXCEPT !.trace = Append(@, event)]

\* An exception leaves the current function with no handler on the stack
\* below scan_pantry: the stack is kept, as the traceback keeps it.
Raise(t, e) == [t EXCEPT !.pc = "raising", !.exc = e]

(***************************************************************************)
(* gemini.analyze_image                                                    *)
(***************************************************************************)
\* img = PIL.Image.open(io.BytesIO(image_bytes)), before the retry loop.
analyze_image_open(r) ==
    /\ th[r].pc = "ai_open"
    /\ UNCHANGED Globals
    /\ IF th[r].img = "junk"
       THEN Upd(r, Raise(th[r], Exc("cannot identify image file", "pil", 0)))
       ELSE Upd(r, [th[r] EXCEPT !.pc = "ai_attempt", !.attempt = 0,
                                 !.waits = <<>>, !.errors = <<>>])

\* One attempt of _client.models.generate_content succeeds: return
\* response.parsed.
generate_content_ok(r) ==
    /\ th[r].pc = "ai_attempt"
    /\ th[r].attempt < _MAX_RETRIES      \* for attempt in range(_MAX_RETRIES)
    /\ UNCHANGED Globals
    /\ \E names \in IngredientLists :
         Upd(r, [Log(th[r], "vision") EXCEPT
                   !.pc = "ai_return",
                   !.retval = [kind |-> "inventory", ingredients |-> names]])

\* The thread after attempt t.attempt failed with e (lines 85-93).
analyze_image_except(t, e) ==
    IF ShouldRetry(t.attempt, e)
    THEN [t EXCEPT !.pc = "ai_sleep", !.errors = Append(@, e)]
    ELSE [Raise(t, e) EXCEPT !.errors = Append(@, e)]

\* One attempt of _client.models.generate_content raises.
generate_content_raises(r) ==
    /\ th[r].pc = "ai_attempt"
    /\ th[r].attempt < _MAX_RETRIES      \* for attempt in range(_MAX_RETRIES)
    /\ UNCHANGED Globals
    /\ \E msg \in ErrorMessages :
         Upd(r, analyze_image_except(
                  Log(th[r], "vision"),
                  Exc(msg, "vision", th[r].attempt)))

\* time.sleep(wait), then the next iteration of the for loop.
time_sleep(r) ==
    /\ th[r].pc = "ai_sleep"
    /\ UNCHANGED Globals
    /\ Upd(r, [th[r] EXCEPT !.pc = "ai_attempt",
                            !.waits = Append(@, BackoffWait(th[r].attempt)),
                            !.attempt = @ + 1])

(***************************************************************************)
(* agent.py and vector_db.py: the pure parts of the search.                *)
(***************************************************************************)
\* A bug: the additional prompt is put first.
QueryTextPromptFirst(ingredient_names, preferences) ==
    LET query_parts ==
            (IF Truthy(preferences.additional_prompt)
             THEN <<preferences.additional_prompt>>
             ELSE <<>>)
            \o <<"Ingredients: " \o Join(", ", ingredient_names)>>
            \o (IF Len(preferences.cuisine_preferences) > 0
                THEN <<"Cuisine: " \o Join(", ", preferences.cuisine_preferences)>>
                ELSE <<>>)
            \o (IF Truthy(preferences.meal_type)
                THEN <<"Meal type: " \o preferences.meal_type>>
                ELSE <<>>)
    IN  Join(". ", query_parts)

\* The query text built by _search_with_preferences (lines 99-108).
QueryText(ingredient_names, preferences) ==
    LET query_parts ==
            <<"Ingredients: " \o Join(", ", ingredient_names)>>
            \o (IF Len(preferences.cuisine_preferences) > 0
                THEN <<"Cuisine: " \o Join(", ", preferences.cuisine_preferences)>>
                ELSE <<>>)
            \o (IF Truthy(preferences.meal_type)
                THEN <<"Meal type: " \o preferences.meal_type>>
                ELSE <<>>)
            \o (IF Truthy(preferences.additional_prompt)
                THEN <<preferences.additional_prompt>>
                ELSE <<>>)
    IN  Join(". ", query_parts)

\* level_map.get(skill_level.lower(), 999)
MaxSteps(skill_level) ==
    LET k == Lower(skill_level)
    IN  IF k = "beginner" THEN 4
        ELSE IF k = "intermediate" THEN 8
        ELSE 999

\* A bug: each restriction replaces the filter built so far.
build_recipe_filter_overwrites(dietary_restrictions, skill_level) ==
    (IF Len(dietary_restrictions) > 0
     THEN <<[field |-> "tag_" \o Strip(Lower(
                 dietary_restrictions[Len(dietary_restrictions)])),
             eq |-> TRUE]>>
     ELSE <<>>)
    \o (IF Truthy(skill_level)
        THEN <<[field |-> "num_steps", lte |-> MaxSteps(skill_level)]>>
        ELSE <<>>)

\* A bug: a restriction that is no tag of ingestion is left out.
build_recipe_filter_known_only(dietary_restrictions, skill_level) ==
    LET known == SelectSeq(dietary_restrictions,
                     LAMBDA tag : Strip(Lower(tag)) \in
                         {"vegetarian", "vegan", "gluten-free", "dairy-free",
                          "nut-free", "shellfish-free"})
    IN  [i \in 1..Len(known) |->
            [field |-> "tag_" \o Strip(Lower(known[i])), eq |-> TRUE]]
        \o (IF Truthy(skill_level)
            THEN <<[field |-> "num_steps", lte |-> MaxSteps(skill_level)]>>
            ELSE <<>>)

\* The Filter as its list of must-conditions, in the order they are added.
build_recipe_filter(dietary_restrictions, skill_level) ==
    [i \in 1..Len(dietary_restrictions) |->
        [field |-> "tag_" \o Strip(Lower(dietary_restrictions[i])), eq |-> TRUE]]
    \o (IF Truthy(skill_level)
        THEN <<[field |-> "num_steps", lte |-> MaxSteps(skill_level)]>>
        ELSE <<>>)

\* The keyword arguments search_recipes passes to client.search.
search_recipes_kwargs(query_vector, top_k, filter_obj) ==
    LET kwargs == [query |-> query_vector, top_k |-> top_k,
                   with_payload |-> TRUE]
    IN  IF Len(filter_obj) > 0      \* filter_obj and not filter_obj.is_empty()
        THEN kwargs @@ ("filter" :> filter_obj)
        ELSE kwargs

\* int(x / y) for y > 0: truncation toward zero.
TruncDiv(x, y) == IF x >= 0 THEN x \div y ELSE -((-x) \div y)

Min(a, b) == IF a <= b THEN a ELSE b

Max(a, b) == IF a >= b THEN a ELSE b

(***************************************************************************)
(* Python values of a payload field.  A value is a record of one shape:    *)
(* py is the type, s the text of a str (or the literal of a scalar),       *)
(* items the elements of a list (or the keys of a dict) as texts, elems    *)
(* the types of those elements.                                            *)
(***************************************************************************)
PyValue(py, s, items, elems) ==
    [py |-> py, s |-> s, items |-> items, elems |-> elems]

\* A list of str.
PyList(items) == PyValue("list", "", items, [i \in 1..Len(items) |-> "str"])

PyStr(s) == PyValue("str", s, <<>>, <<>>)

\* json.loads raised json.JSONDecodeError.
JSONDecodeError == PyValue("JSONDecodeError", "", <<>>, <<>>)

\* The characters of a str, as iterating over it yields them.
Chars(s) == [i \in 1..Len(s) |-> SubSeq(s, i, i)]

RECURSIVE Split(_, _)
\* s cut at every occurrence of the character c.
Split(s, c) ==
    IF \E i \in 1..Len(s) : SubSeq(s, i, i) = c
    THEN LET i == CHOOSE j \in 1..Len(s) :
                    /\ SubSeq(s, j, j) = c
                    /\ \A k \in 1..(j - 1) : SubSeq(s, k, k) # c
         IN  <<SubSeq(s, 1, i - 1)>> \o Split(SubSeq(s, i + 1, Len(s)), c)
    ELSE <<s>>

Digits == "0123456789"

IsDigit(c) == \E i \in 1..10 : SubSeq(Digits, i, i) = c

\* A JSON integer: an optional minus sign, digits, no leading zero.
IsJsonInt(t) ==
    LET d == IF Len(t) > 0 /\ SubSeq(t, 1, 1) = "-"
             THEN SubSeq(t, 2, Len(t)) ELSE t
    IN  /\ Len(d) > 0
        /\ \A i \in 1..Len(d) : IsDigit(SubSeq(d, i, i))
        /\ (Len(d) > 1 => SubSeq(d, 1, 1) # "0")

\* A JSON string with no escape sequence in it.
IsJsonString(t) ==
    /\ Len(t) >= 2
    /\ SubSeq(t, 1, 1) = "\""
    /\ SubSeq(t, Len(t), Len(t)) = "\""
    /\ \A i \in 2..(Len(t) - 1) : SubSeq(t, i, i) \notin {"\"", "\\"}

\* json.loads of a text that holds one scalar.
JsonScalar(t) ==
    IF t = "null" THEN PyValue("NoneType", t, <<>>, <<>>)
    ELSE IF t \in {"true", "false"} THEN PyValue("bool", t, <<>>, <<>>)
    ELSE IF IsJsonInt(t) THEN PyValue("int", t, <<>>, <<>>)
    ELSE IF IsJsonString(t) THEN PyStr(SubSeq(t, 2, Len(t) - 1))
    ELSE JSONDecodeError

\* t is wrapped in the characters open and close.
Wrapped(t, open, close) ==
    /\ Len(t) >= 2
    /\ SubSeq(t, 1, 1) = open
    /\ SubSeq(t, Len(t), Len(t)) = close

\* json.loads(text), for texts that hold a scalar, a list of scalars or an
\* object of scalars, with no escape sequence and no comma, colon or
\* bracket inside a string.
json_loads(text) ==
    LET t == Strip(text)
        inner == Strip(SubSeq(t, 2, Len(t) - 1))
        parts == Split(inner, ",")
    IN  IF Wrapped(t, "[", "]")
        THEN IF inner = "" THEN PyList(<<>>)
             ELSE LET vals == [i \in 1..Len(parts) |-> JsonScalar(Strip(parts[i]))]
                  IN  IF \E i \in 1..Len(vals) : vals[i] = JSONDecodeError
                      THEN JSONDecodeError
                      ELSE PyValue("list", "",
                                   [i \in 1..Len(vals) |-> vals[i].s],
                                   [i \in 1..Len(vals) |-> vals[i].py])
        ELSE IF Wrapped(t, "{", "}")
        THEN IF inner = "" THEN PyValue("dict", "", <<>>, <<>>)
             ELSE LET kv == [i \in 1..Len(parts) |-> Split(parts[i], ":")]
                      ok(i) == /\ Len(kv[i]) = 2
                               /\ IsJsonString(Strip(kv[i][1]))
                               /\ JsonScalar(Strip(kv[i][2])) # JSONDecodeError
                  IN  IF \A i \in 1..Len(parts) : ok(i)
                      THEN PyValue("dict", "",
                                   [i \in 1..Len(parts) |->
                                       JsonScalar(Strip(kv[i][1])).s],
                                   [i \in 1..Len(parts) |-> "str"])
                      ELSE JSONDecodeError
        ELSE JsonScalar(t)

(***************************************************************************)
(* agent._format_results.  Python computes the scores in binary64; the     *)
(* operators below compute them in integers and take away the one unit     *)
(* that int() loses where the binary64 value falls just below the exact    *)
(* one (0.29 * 100 is 28.999999999999996).  The tables hold every such     *)
(* point of their range.                                                   *)
(***************************************************************************)
\* payload.get(name, []) decoded: lines 47-52 and 69-74.
decode_field(raw) ==
    IF raw.py = "str"
    THEN LET parsed == json_loads(raw.s)
         IN  IF parsed = JSONDecodeError THEN PyList(<<raw.s>>) ELSE parsed
    ELSE raw

\* What iterating over a value yields: the elements of a list, the
\* characters of a str, the keys of a dict.
Iterate(x) == IF x.py = "str" THEN Chars(x.s) ELSE x.items

\* len(x)
PyLen(x) == Len(Iterate(x))

\* The exception [i.lower() for i in raw_ingredients] raises, "" if none.
LowerAllRaises(raw_ingredients) ==
    IF raw_ingredients.py \notin {"list", "str", "dict"} THEN "TypeError"
    ELSE IF \E i \in 1..Len(raw_ingredients.elems) :
                raw_ingredients.elems[i] # "str"
         THEN "AttributeError"
         ELSE ""

\* Number of detected ingredients that occur in some recipe ingredient.
Matches(raw_ingredients, ingredient_names) ==
    Cardinality({d \in 1..Len(ingredient_names) :
        \E i \in 1..Len(raw_ingredients) :
            Contains(Lower(raw_ingredients[i]), Lower(ingredient_names[d]))})

\* (matches, total) with total <= 100, matches <= 300 at which
\* (matches / total) * 100 is below its exact value, an integer.
MatchPctShortfall == {<<29, 50>>, <<29, 100>>, <<57, 100>>, <<58, 100>>}

\* total_recipe_ings = max(len(raw_ingredients), 1)
\* match_pct = min(int((matches / total_recipe_ings) * 100), 100)
MatchPct(matches, n_raw) ==
    LET total_recipe_ings == Max(n_raw, 1)
        lost == IF <<matches, total_recipe_ings>> \in MatchPctShortfall
                THEN 1 ELSE 0
    IN  Min(TruncDiv(matches * 100, total_recipe_ings) - lost, 100)

\* Scores in thousandths, up to 2000, at which score * 100 is below its
\* exact value, an integer.
VectorMatchShortfall == {290, 570, 580, 1130, 1140, 1150, 1160}

\* vector_match = int(score * 100); the score is held in thousandths.
VectorMatch(score) ==
    LET a == IF score >= 0 THEN score ELSE -score
        q == a \div 10 - (IF a \in VectorMatchShortfall THEN 1 ELSE 0)
    IN  IF score >= 0 THEN q ELSE -q

\* (match_pct, vector_match) in 0..100 x -100..200 at which
\* 0.4 * match_pct + 0.6 * vector_match is below its exact value, an integer
\* (0.4 * 1 + 0.6 * 6 is 3.9999999999999996).
BlendShortfall ==
    {<<1, 6>>, <<1, 31>>, <<1, 36>>, <<1, 41>>, <<1, 46>>, <<1, 51>>,
     <<1, 96>>, <<1, 101>>, <<1, 106>>, <<2, 12>>, <<2, 57>>, <<2, 62>>,
     <<2, 67>>, <<2, 72>>, <<2, 77>>, <<2, 82>>, <<2, 87>>, <<2, 92>>,
     <<2, 97>>, <<2, 102>>, <<3, 48>>, <<4, 24>>, <<4, 109>>, <<4, 114>>,
     <<4, 119>>, <<4, 124>>, <<4, 129>>, <<4, 134>>, <<4, 139>>,
     <<4, 144>>, <<4, 149>>, <<4, 154>>, <<4, 159>>, <<4, 164>>, <<6, 96>>,
     <<6, 101>>, <<7, 57>>, <<7, 62>>, <<7, 67>>, <<7, 72>>, <<7, 77>>,
     <<7, 82>>, <<7, 87>>, <<7, 92>>, <<7, 97>>, <<7, 102>>, <<8, 48>>,
     <<9, 109>>, <<9, 114>>, <<9, 119>>, <<9, 124>>, <<9, 129>>,
     <<9, 134>>, <<9, 139>>, <<9, 144>>, <<9, 149>>, <<9, 154>>,
     <<9, 159>>, <<11, 96>>, <<14, 109>>, <<14, 114>>, <<14, 119>>,
     <<14, 124>>, <<14, 129>>, <<14, 134>>, <<14, 139>>, <<14, 144>>,
     <<14, 149>>, <<14, 154>>, <<16, 96>>, <<19, 109>>, <<19, 114>>,
     <<19, 119>>, <<19, 124>>, <<19, 129>>, <<19, 134>>, <<19, 139>>,
     <<19, 144>>, <<19, 149>>, <<19, 154>>}

\* A bug: the blend is not clamped.
BlendedMatchUnclamped(match_pct, vector_match) ==
    TruncDiv(4 * match_pct + 6 * vector_match, 10)

\* blended_match = int(0.4 * match_pct + 0.6 * vector_match)
\* blended_match = min(max(blended_match, 0), 100)
BlendedMatch(match_pct, vector_match) ==
    LET lost == IF <<match_pct, vector_match>> \in BlendShortfall
                THEN 1 ELSE 0
    IN  Min(Max(TruncDiv(4 * match_pct + 6 * vector_match, 10) - lost, 0), 100)

\* The dictionary _format_results appends for one hit that raises nothing.
FormatHit(h, ingredient_names) ==
    LET raw_ingredients == decode_field(h.payload.ingredients)
        matches == Matches(Iterate(raw_ingredients), ingredient_names)
        match_pct == MatchPct(matches, PyLen(raw_ingredients))
        vector_match == VectorMatch(h.score)
    IN  [id |-> h.id, title |-> h.payload.title,
         match |-> BlendedMatch(match_pct, vector_match),
         ingredients |-> raw_ingredients,
         directions |-> decode_field(h.payload.directions)]

\* The exception the loop body raises for hit h, "" if none.
FormatHitRaises(h) == LowerAllRaises(decode_field(h.payload.ingredients))

RECURSIVE InsertBeforeEqual(_, _)
\* A bug: a sort that is not stable.
InsertBeforeEqual(sorted, x) ==
    IF Len(sorted) = 0 THEN <<x>>
    ELSE IF Head(sorted).match > x.match
         THEN <<Head(sorted)>> \o InsertBeforeEqual(Tail(sorted), x)
         ELSE <<x>> \o sorted

RECURSIVE InsertDesc(_, _)
\* x put into the descending list after every entry whose match is >= its own.
InsertDesc(sorted, x) ==
    IF Len(sorted) = 0 THEN <<x>>
    ELSE IF Head(sorted).match >= x.match
         THEN <<Head(sorted)>> \o InsertDesc(Tail(sorted), x)
         ELSE <<x>> \o sorted

RECURSIVE SortDesc(_)
\* recipes.sort(key=lambda x: x["match"], reverse=True): a stable sort.
SortDesc(recipes) ==
    IF Len(recipes) = 0 THEN <<>>
    ELSE InsertDesc(SortDesc(SubSeq(recipes, 1, Len(recipes) - 1)),
                    recipes[Len(recipes)])

\* _format_results(results, ingredient_names): the exception of the first
\* hit that raises one, or the sorted recipes.
_format_results(results, ingredient_names) ==
    LET failing == {i \in 1..Len(results) : FormatHitRaises(results[i]) # ""}
    IN  IF failing # {}
        THEN [raised |-> FormatHitRaises(
                           results[CHOOSE i \in failing :
                                       \A j \in failing : i <= j]),
              recipes |-> <<>>]
        ELSE [raised |-> "",
              recipes |-> SortDesc([i \in 1..Len(results) |->
                                      FormatHit(results[i], ingredient_names)])]

\* Hits the vector store may return.
HitRice ==
    [id |-> 9, score |-> 650,
     payload |-> [title |-> "Rice bowl", ingredients |-> PyList(<<"rice">>),
                  directions |-> PyList(<<"boil">>)]]

HitPancakes ==
    [id |-> 7, score |-> 800,
     payload |-> [title |-> "Pancakes",
                  ingredients |-> PyList(<<"2 Eggs", "1 cup Flour", "milk">>),
                  directions |-> PyList(<<"mix", "fry">>)]]

HitLists == {<<>>, <<HitRice, HitPancakes>>}

(***************************************************************************)
(* agent._search_with_preferences                                          *)
(***************************************************************************)
\* Enter _search_with_preferences(names, preferences), resuming at resume.
CallSearch(t, names, preferences, resume) ==
    [Call(t, "swp_compose", resume) EXCEPT
        !.ingredient_names = names, !.swp_preferences = preferences,
        !.query_text = "", !.query_vector = NoVal, !.db_filter = <<>>,
        !.client = "none", !.search_kwargs = NoVal, !.results = <<>>,
        !.pending = NoExc]

\* Lines 99-108: build the query text.
swp_compose(r) ==
    /\ th[r].pc = "swp_compose"
    /\ UNCHANGED Globals
    /\ Upd(r, [Log(th[r], "compose") EXCEPT
                 !.pc = "swp_embed",
                 !.query_text = QueryText(th[r].ingredient_names,
                                          th[r].swp_preferences)])

\* A bug (or the behaviour the spec describes): the embed call is retried.
generate_embedding_retried(t, e) == [t EXCEPT !.pc = "swp_embed"]

\* The thread after gemini.generate_embedding raised e: nothing catches it.
generate_embedding_failed(t, e) == Raise(t, e)

\* Line 111: gemini.generate_embedding(query_text) returns the vector.
generate_embedding_ok(r) ==
    /\ th[r].pc = "swp_embed"
    /\ UNCHANGED Globals
    /\ Upd(r, [Log(th[r], "embed") EXCEPT
                 !.pc = "swp_filter",
                 !.query_vector = [kind |-> "vector", text |-> th[r].query_text]])

\* Line 111: the local model raises (it cannot be loaded, or encode fails).
generate_embedding_raises(r) ==
    /\ th[r].pc = "swp_embed"
    /\ UNCHANGED Globals
    /\ \E msg \in {"503 model UNAVAILABLE", "CUDA out of memory"} :
         Upd(r, generate_embedding_failed(Log(th[r], "embed"),
                                          Exc(msg, "embed", 0)))

\* Lines 114-120: build the filter, then client = vector_db.get_client().
swp_filter(r) ==
    /\ th[r].pc = "swp_filter"
    /\ UNCHANGED Globals
    /\ Upd(r, [Log(Log(th[r], "filter"), "get_client") EXCEPT
                 !.pc = "swp_connect",
                 !.client = "created",
                 !.db_filter = build_recipe_filter(
                                 th[r].swp_preferences.dietary_restrictions,
                                 th[r].swp_preferences.skill_level)])

\* A bug: no finally clause, the exception leaves at once.
swp_try_failed_no_finally(t, e) == Raise(t, e)

\* The thread after an exception e inside the try block (lines 121-128):
\* the finally clause runs with e pending.
swp_try_failed(t, e) == [t EXCEPT !.pc = "swp_finally", !.pending = e]

\* Line 122: client.connect() succeeds.
client_connect_ok(r) ==
    /\ th[r].pc = "swp_connect"
    /\ UNCHANGED Globals
    /\ Upd(r, [Log(th[r], "connect") EXCEPT
                 !.pc = "swp_search", !.client = "connected"])

\* Line 122: client.connect() raises.
client_connect_raises(r) ==
    /\ th[r].pc = "swp_connect"
    /\ UNCHANGED Globals
    /\ Upd(r, swp_try_failed(Log(th[r], "connect"),
                             Exc("connection refused", "connect", 0)))

\* Lines 123-128: vector_db.search_recipes(...) returns the hits.
search_recipes_ok(r) ==
    /\ th[r].pc = "swp_search"
    /\ UNCHANGED Globals
    /\ \E hits \in HitLists :
         Upd(r, [Log(th[r], "search") EXCEPT
                   !.pc = "swp_finally",
                   !.search_kwargs = search_recipes_kwargs(
                        th[r].query_vector, TOP_K, th[r].db_filter),
                   !.results = hits])

\* Lines 123-128: client.search raises.
search_recipes_raises(r) ==
    /\ th[r].pc = "swp_search"
    /\ UNCHANGED Globals
    /\ Upd(r, swp_try_failed(
                [Log(th[r], "search") EXCEPT
                   !.search_kwargs = search_recipes_kwargs(
                        th[r].query_vector, TOP_K, th[r].db_filter)],
                Exc("collection not found", "search", 0)))

\* A bug: the pending exception is swallowed.
swp_after_finally_swallow(t) == [t EXCEPT !.pc = "swp_format"]

\* The thread after the finally clause closed the client: the pending
\* exception, if any, goes on; otherwise line 132 is next.
swp_after_finally(t) ==
    IF t.pending # NoExc
    THEN [Raise(t, t.pending) EXCEPT !.pending = NoExc]
    ELSE [t EXCEPT !.pc = "swp_format"]

\* Lines 129-130: client.close() succeeds.
client_close_ok(r) ==
    /\ th[r].pc = "swp_finally"
    /\ UNCHANGED Globals
    /\ Upd(r, swp_after_finally([Log(th[r], "close") EXCEPT !.client = "closed"]))

\* Lines 129-130: client.close() raises; its error replaces the pending one.
client_close_raises(r) ==
    /\ th[r].pc = "swp_finally"
    /\ UNCHANGED Globals
    /\ Upd(r, [Raise(Log(th[r], "close"), Exc("close failed", "close", 0))
                 EXCEPT !.client = "closed"])

\* Line 132: return _format_results(results, ingredient_names).
swp_format(r) ==
    /\ th[r].pc = "swp_format"
    /\ UNCHANGED Globals
    /\ LET formatted == _format_results(th[r].results, th[r].ingredient_names)
       IN  IF formatted.raised # ""
           THEN Upd(r, Raise(Log(th[r], "rank"),
                             Exc(formatted.raised, "rank", 0)))
           ELSE Upd(r, [Log(th[r], "rank") EXCEPT
                          !.pc = "swp_return",
                          !.retval = [kind |-> "recipes",
                                      recipes |-> formatted.recipes]])

(***************************************************************************)
(* agent.run_direct_pipeline                                               *)
(***************************************************************************)
\* Enter run_direct_pipeline(image_bytes, preferences), resuming at resume.
\* Line 149: it calls gemini.analyze_image(image_bytes) at once.
CallDirect(t, resume) ==
    [Call(Call(t, "rdp", resume), "ai_open", "rdp_vision_done") EXCEPT
        !.img = t.image_bytes, !.trace = <<>>, !.search_kwargs = NoVal,
        !.client = "none"]

\* A bug: the short-circuit is never taken.
NoIngredientsNever(ingredient_names) == FALSE

\* Line 153: if not ingredient_names
NoIngredients(ingredient_names) == Len(ingredient_names) = 0

\* Lines 150-158: after the vision step, short-circuit or search.
rdp_after_vision(r) ==
    /\ th[r].pc = "rdp_vision_done"
    /\ UNCHANGED Globals
    /\ LET ingredient_names == th[r].retval.ingredients
           t == [th[r] EXCEPT !.rdp_ingredient_names = ingredient_names, !.retval = NoVal]
       IN  IF NoIngredients(ingredient_names)
           THEN Upd(r, [t EXCEPT !.pc = "rdp_return",
                                 !.retval = [kind |-> "result",
                                             detected_ingredients |-> <<>>,
                                             recipes |-> <<>>]])
           ELSE Upd(r, CallSearch(t, ingredient_names, t.preferences,
                                  "rdp_search_done"))

\* Lines 159-164: return the detected names and the recipes.
rdp_after_search(r) ==
    /\ th[r].pc = "rdp_search_done"
    /\ UNCHANGED Globals
    /\ Upd(r, [th[r] EXCEPT !.pc = "rdp_return",
                            !.retval = [kind |-> "result",
                                        detected_ingredients |-> th[r].rdp_ingredient_names,
                                        recipes |-> th[r].retval.recipes]])

\* A function returns: the caller resumes, the callee's locals are gone.
Return(r) ==
    /\ th[r].pc \in {"ai_return", "swp_return", "rdp_return"}
    /\ UNCHANGED Globals
    /\ Upd(r, [th[r] EXCEPT
                 !.pc = Head(th[r].stack), !.stack = Tail(@),
                 !.img = IF th[r].pc = "ai_return" THEN "" ELSE @,
                 !.attempt = IF th[r].pc = "ai_return" THEN 0 ELSE @,
                 !.waits = IF th[r].pc = "ai_return" THEN <<>> ELSE @,
                 !.errors = IF th[r].pc = "ai_return" THEN <<>> ELSE @,
                 !.ingredient_names = IF th[r].pc = "swp_return" THEN <<>> ELSE @,
                 !.swp_preferences =
                     IF th[r].pc = "swp_return" THEN DefaultPreferences ELSE @,
                 !.query_text = IF th[r].pc = "swp_return" THEN "" ELSE @,
                 !.query_vector = IF th[r].pc = "swp_return" THEN NoVal ELSE @,
                 !.db_filter = IF th[r].pc = "swp_return" THEN <<>> ELSE @,
                 !.results = IF th[r].pc = "swp_return" THEN <<>> ELSE @,
                 !.client = IF th[r].pc = "swp_return" THEN "none" ELSE @,
                 !.rdp_ingredient_names = IF th[r].pc = "rdp_return" THEN <<>> ELSE @])

(***************************************************************************)
(* agent.py: the agent mode.  The LLM behind the AgentExecutor decides     *)
(* which tool to call next, or ends the run with an output text.           *)
(***************************************************************************)
\* A recipe as the LLM may write it into its final answer.
AgentRecipe ==
    [id |-> 7, title |-> "Pancakes", match |-> 80,
     ingredients |-> <<"eggs", "flour">>, directions |-> <<"mix", "fry">>]

\* result["output"] after json.loads: text that is no JSON, a JSON value
\* that is no object, or an object with its "recipes" and "ingredients".
AgentOutputs ==
    {[json |-> "invalid", recipes |-> <<>>, ingredients |-> <<>>],
     [json |-> "list", recipes |-> <<>>, ingredients |-> <<>>],
     [json |-> "object", recipes |-> <<>>, ingredients |-> <<"egg">>],
     [json |-> "object", recipes |-> <<AgentRecipe>>, ingredients |-> <<"egg">>],
     [json |-> "object", recipes |-> <<AgentRecipe>>, ingredients |-> <<>>]}

\* "Agent stopped due to iteration limit or time limit."
StoppedOutput == [json |-> "invalid", recipes |-> <<>>, ingredients |-> <<>>]

\* ingredients_json as the LLM may pass it to search_recipes_tool.
ToolArgs ==
    {[json |-> "invalid", items |-> <<>>],
     [json |-> "dict", items |-> <<"egg", "flour">>]}

\* Lines 203-215 of search_recipes_tool: the names in ingredients_json.
ToolIngredientNames(arg) ==
    IF arg.json \in {"dict", "list"} THEN arg.items ELSE <<>>

\* What run_agent does with a request (lines 339-346).
run_agent(t) ==
    IF USE_AGENT
    THEN [t EXCEPT !.pc = "ram_set_image"]
    ELSE CallDirect(t, "ra_return")

\* main.scan_pantry: the request is read and run_agent is called.
scan_pantry(r) ==
    /\ th[r].pc = "idle"
    /\ th[r].image_bytes # ""          \* line 97: an empty image is a 400
    /\ UNCHANGED Globals
    /\ Upd(r, run_agent(th[r]))

\* Line 270: _current_image_bytes = image_bytes
ram_set_image(r) ==
    /\ th[r].pc = "ram_set_image"
    /\ _current_image_bytes' = th[r].image_bytes
    /\ UNCHANGED <<USE_AGENT, _current_preferences>>
    /\ Upd(r, [th[r] EXCEPT !.pc = "ram_set_preferences"])

\* Lines 271-296: _current_preferences = preferences, then the prompt is
\* built and executor.invoke starts.
ram_set_preferences(r) ==
    /\ th[r].pc = "ram_set_preferences"
    /\ _current_preferences' = th[r].preferences
    /\ UNCHANGED <<USE_AGENT, _current_image_bytes>>
    /\ Upd(r, [th[r] EXCEPT !.pc = "exec_loop", !.iterations = 0,
                            !.in_executor = TRUE])

\* The executor reached max_iterations: it stops with a fixed text.
executor_stops(r) ==
    /\ th[r].pc = "exec_loop"
    /\ th[r].iterations >= max_iterations
    /\ UNCHANGED Globals
    /\ Upd(r, [th[r] EXCEPT !.pc = "ram_parse", !.output = StoppedOutput,
                            !.iterations = 0, !.in_executor = FALSE])

\* The LLM call of the agent raises: executor.invoke raises.
llm_raises(r) ==
    /\ th[r].pc = "exec_loop"
    /\ th[r].iterations < max_iterations
    /\ UNCHANGED Globals
    /\ Upd(r, Raise(th[r], Exc("429 RESOURCE_EXHAUSTED", "llm", 0)))

\* The LLM ends the run with an output text.
llm_finishes(r) ==
    /\ th[r].pc = "exec_loop"
    /\ th[r].iterations < max_iterations
    /\ UNCHANGED Globals
    /\ \E o \in AgentOutputs :
         Upd(r, [th[r] EXCEPT !.pc = "ram_parse", !.output = o,
                              !.iterations = 0, !.in_executor = FALSE])

\* The LLM calls the tool analyze_pantry_image (lines 170-189).
analyze_pantry_image(r) ==
    /\ th[r].pc = "exec_loop"
    /\ th[r].iterations < max_iterations
    /\ UNCHANGED Globals
    /\ LET t == [th[r] EXCEPT !.iterations = @ + 1, !.trace = <<>>,
                              !.search_kwargs = NoVal]
       IN  IF _current_image_bytes = ""
           THEN Upd(r, t)               \* {"error": "No image provided"}
           ELSE Upd(r, [Call(t, "ai_open", "tool_done") EXCEPT
                          !.img = _current_image_bytes])

\* The LLM calls the tool search_recipes_tool (lines 192-221).
search_recipes_tool(r) ==
    /\ th[r].pc = "exec_loop"
    /\ th[r].iterations < max_iterations
    /\ UNCHANGED Globals
    /\ \E arg \in ToolArgs :
         LET t == [th[r] EXCEPT !.iterations = @ + 1, !.trace = <<>>,
                                !.search_kwargs = NoVal]
             ingredient_names == ToolIngredientNames(arg)
         IN  IF Len(ingredient_names) = 0
             THEN Upd(r, t)             \* {"error": "No ingredients ..."}
             ELSE Upd(r, CallSearch(t, ingredient_names,
                                    _current_preferences, "tool_done"))

\* A tool returns its JSON text to the executor.
tool_done(r) ==
    /\ th[r].pc = "tool_done"
    /\ UNCHANGED Globals
    /\ Upd(r, [th[r] EXCEPT !.pc = "exec_loop", !.retval = NoVal,
                            !.trace = <<>>, !.search_kwargs = NoVal])

\* Line 314: if not recipes
NeedsFallback(output) == Len(output.recipes) = 0

\* Lines 298-324: parse the output; fall back to the direct pipeline, or
\* fill in the detected ingredients, or return.
ram_parse(r) ==
    /\ th[r].pc = "ram_parse"
    /\ UNCHANGED Globals
    /\ LET o == th[r].output
           recipes == IF o.json = "object" THEN o.recipes ELSE <<>>
           detected_ingredients == IF o.json = "object" THEN o.ingredients ELSE <<>>
           t == th[r]
       IN  IF NeedsFallback([o EXCEPT !.recipes = recipes])
           THEN Upd(r, [CallDirect(t, "ra_return") EXCEPT !.fallback = TRUE])
           ELSE IF Len(detected_ingredients) = 0
           THEN Upd(r, [Call(t, "ai_open", "ram_tail") EXCEPT
                          !.img = t.image_bytes, !.trace = <<>>])
           ELSE Upd(r, [t EXCEPT !.pc = "ra_return",
                          !.retval = [kind |-> "result",
                                      detected_ingredients |-> detected_ingredients,
                                      recipes |-> recipes]])

\* Lines 318-324: the second vision call returned.
ram_tail(r) ==
    /\ th[r].pc = "ram_tail"
    /\ UNCHANGED Globals
    /\ Upd(r, [th[r] EXCEPT !.pc = "ra_return",
                 !.retval = [kind |-> "result",
                             detected_ingredients |-> th[r].retval.ingredients,
                             recipes |-> th[r].output.recipes]])

\* main.scan_pantry, lines 126-135: the 200 response.
respond(r) ==
    /\ th[r].pc = "ra_return"
    /\ UNCHANGED Globals
    /\ Upd(r, [th[r] EXCEPT !.pc = "done",
                 !.response = [status |-> 200, body |-> th[r].retval]])

\* main.scan_pantry, lines 117-124: an exception of the pipeline becomes
\* the 500 response.
respond_error(r) ==
    /\ th[r].pc = "raising"
    /\ UNCHANGED Globals
    /\ Upd(r, [th[r] EXCEPT !.pc = "done",
                 !.response = [status |-> 500, body |-> th[r].exc]])

(***************************************************************************)
(* scripts/ingest_recipes.py: the payload of an ingested recipe.           *)
(***************************************************************************)
MEAT_KEYWORDS ==
    {"chicken", "beef", "pork", "lamb", "turkey", "bacon", "sausage",
     "salami", "prosciutto", "pepperoni", "ham", "steak", "veal", "duck",
     "goose", "venison", "bison", "rabbit", "ground beef", "ground turkey",
     "ground pork", "ground chicken", "chuck", "sirloin", "tenderloin",
     "rib", "brisket"}

SEAFOOD_KEYWORDS ==
    {"shrimp", "salmon", "fish", "tuna", "cod", "tilapia", "crab",
     "lobster", "clam", "mussel", "oyster", "scallop", "anchovy",
     "anchovies", "sardine", "trout", "halibut", "mahi", "swordfish",
     "calamari", "squid", "octopus", "prawn", "crawfish", "crayfish"}

DAIRY_KEYWORDS ==
    {"milk", "cream", "butter", "cheese", "yogurt", "yoghurt",
     "sour cream", "cream cheese", "whey", "ghee", "casein",
     "half-and-half", "half and half", "ricotta", "mozzarella", "parmesan",
     "cheddar", "provolone", "feta", "brie", "gouda", "gruyere",
     "mascarpone", "cottage cheese", "whipped cream", "heavy cream",
     "ice cream"}

EGG_KEYWORDS ==
    {"egg", "eggs", "egg white", "egg yolk", "mayonnaise", "mayo"}

GLUTEN_KEYWORDS ==
    {"flour", "bread", "pasta", "noodle", "noodles", "spaghetti",
     "macaroni", "penne", "fettuccine", "linguine", "lasagna", "tortilla",
     "wrap", "pita", "baguette", "croissant", "breadcrumb", "breadcrumbs",
     "panko", "crouton", "croutons", "soy sauce", "barley", "rye", "wheat",
     "couscous", "orzo", "muffin", "cake", "cookie", "biscuit", "cracker",
     "pretzel", "bagel", "roll", "bun", "pie crust", "pastry", "phyllo",
     "wonton", "manicotti", "ravioli", "tortellini"}

NUT_KEYWORDS ==
    {"peanut", "peanuts", "peanut butter", "almond", "almonds", "walnut",
     "walnuts", "cashew", "cashews", "pecan", "pecans", "pistachio",
     "pistachios", "macadamia", "hazelnut", "hazelnuts", "pine nut",
     "pine nuts", "brazil nut"}

SHELLFISH_KEYWORDS ==
    {"shrimp", "crab", "lobster", "clam", "clams", "mussel", "mussels",
     "oyster", "oysters", "scallop", "scallops", "crawfish", "crayfish",
     "prawn", "prawns"}

\* _text_contains_any(text, keywords)
_text_contains_any(text, keywords) == \E kw \in keywords : Contains(text, kw)

\* A bug: a recipe with eggs may be tagged vegan.
IsVeganIgnoringEggs(has_meat, has_seafood, has_dairy, has_eggs) ==
    ~has_meat /\ ~has_seafood /\ ~has_dairy

\* Line 235: the condition under which "vegan" is appended.
IsVegan(has_meat, has_seafood, has_dairy, has_eggs) ==
    ~has_meat /\ ~has_seafood /\ ~has_dairy /\ ~has_eggs

\* tag in tags
InTags(tag, tags) == \E i \in 1..Len(tags) : tags[i] = tag

\* infer_dietary_tags(ingredients): the tag list and the boolean flags.
infer_dietary_tags(ingredients) ==
    LET text == Lower(Join(" ", ingredients))
        has_meat == _text_contains_any(text, MEAT_KEYWORDS)
        has_seafood == _text_contains_any(text, SEAFOOD_KEYWORDS)
        has_dairy == _text_contains_any(text, DAIRY_KEYWORDS)
        has_eggs == _text_contains_any(text, EGG_KEYWORDS)
        has_gluten == _text_contains_any(text, GLUTEN_KEYWORDS)
        has_nuts == _text_contains_any(text, NUT_KEYWORDS)
        has_shellfish == _text_contains_any(text, SHELLFISH_KEYWORDS)
        tags == (IF ~has_meat /\ ~has_seafood THEN <<"vegetarian">> ELSE <<>>)
                \o (IF IsVegan(has_meat, has_seafood, has_dairy, has_eggs)
                    THEN <<"vegan">> ELSE <<>>)
                \o (IF ~has_gluten THEN <<"gluten-free">> ELSE <<>>)
                \o (IF ~has_dairy THEN <<"dairy-free">> ELSE <<>>)
                \o (IF ~has_nuts THEN <<"nut-free">> ELSE <<>>)
                \o (IF ~has_shellfish THEN <<"shellfish-free">> ELSE <<>>)
    IN  ("dietary_tags" :> tags)
        @@ ("tag_vegetarian" :> InTags("vegetarian", tags))
        @@ ("tag_vegan" :> InTags("vegan", tags))
        @@ ("tag_gluten-free" :> InTags("gluten-free", tags))
        @@ ("tag_dairy-free" :> InTags("dairy-free", tags))
        @@ ("tag_nut-free" :> InTags("nut-free", tags))
        @@ ("tag_shellfish-free" :> InTags("shellfish-free", tags))

\* infer_skill_level(num_steps)
infer_skill_level(num_steps) ==
    IF num_steps <= 4 THEN "beginner"
    ELSE IF num_steps <= 8 THEN "intermediate"
    ELSE "advanced"

\* The payload ingest builds for a recipe of the corpus (lines 339-357).
Payload(recipe) ==
    [title |-> recipe.recipe_title,
     ingredients |-> PyList(recipe.ingredients),
     directions |-> PyList(recipe.directions),
     num_ingredients |-> Len(recipe.ingredients),
     num_steps |-> recipe.num_steps,
     skill_level |-> infer_skill_level(recipe.num_steps)]
    @@ infer_dietary_tags(recipe.ingredients)

\* The recipes of the corpus that is ingested.
Corpus ==
    <<[recipe_title |-> "Rice and beans",
       ingredients |-> <<"rice", "black beans", "cumin">>,
       directions |-> <<"boil", "mix">>, num_steps |-> 3],
      [recipe_title |-> "Chicken rice",
       ingredients |-> <<"chicken breast", "rice">>,
       directions |-> <<"fry">>, num_steps |-> 6],
      [recipe_title |-> "Pancakes",
       ingredients |-> <<"eggs", "flour", "milk">>,
       directions |-> <<"mix", "fry">>, num_steps |-> 9],
      [recipe_title |-> "Cassoulet",
       ingredients |-> <<"white beans", "duck", "pork sausage">>,
       directions |-> <<"soak", "simmer">>, num_steps |-> 1000],
      [recipe_title |-> "Garden stew",
       ingredients |-> <<"carrot", "potato", "leek">>,
       directions |-> <<"chop", "simmer">>, num_steps |-> 1000]>>

(***************************************************************************)
(* ingest_recipes.ingest, in its modes full and insert.  The script is one *)
(* thread of a process of its own.  A batch upsert, an upsert of one       *)
(* recipe and a call of the embedding model may each raise.                *)
(***************************************************************************)
\* build_embedding_text(recipe), lines 271-292; the recipes of the corpus
\* have no description and no category.
build_embedding_text(recipe) ==
    Join(". ",
         (IF recipe.recipe_title # "" THEN <<recipe.recipe_title>> ELSE <<>>)
         \o (IF Len(recipe.ingredients) > 0
             THEN <<"Ingredients: " \o Join(", ", recipe.ingredients)>>
             ELSE <<>>))

\* gemini.generate_embeddings_batch(texts): one vector per text, in order.
generate_embeddings_batch(texts) ==
    [k \in 1..Len(texts) |-> [kind |-> "vector", text |-> texts[k]]]

\* The recipe of index i (from 0) of the file.
RecipeAt(i) == Corpus[i + 1]

\* Lines 337-359: the payload and the embedding text of every recipe, by
\* index; lines 468-488 build the same two values again inside the loop
\* of the mode full.
all_payloads == [i \in 0..(Len(Corpus) - 1) |-> Payload(RecipeAt(i))]

all_embedding_texts ==
    [i \in 0..(Len(Corpus) - 1) |-> build_embedding_text(RecipeAt(i))]

\* Lines 392-393 (insert): the vectors of the file the mode generate wrote,
\* one per recipe, in the order of the recipes (lines 368-380).
all_vectors ==
    [i \in 0..(Len(Corpus) - 1) |->
        [kind |-> "vector", text |-> all_embedding_texts[i]]]

\* The frame of ingest before it is called.
IngestOff ==
    [pc |-> "off", mode |-> "full", total |-> 0,
     batch_size |-> 1, embedding_batch_size |-> 1,
     i |-> 0, embedding_texts |-> <<>>,
     batch_ids |-> <<>>, batch_vectors |-> <<>>, batch_payloads |-> <<>>,
     current_vectors |-> <<>>, j |-> 1, processed |-> 0,
     client |-> "none", upserts |-> <<>>, rate_limited |-> FALSE,
     exc |-> NoExc, completed |-> FALSE]

NotIngesting == ing = IngestOff

\* The next frame of ingest.
Frame(rec) == ing' = rec /\ UNCHANGED <<Globals, th, Applied, Loader>>

\* A call of the store: a batch upsert or the upsert of one recipe.
UpsertCall(op, ids, vectors, payloads, raised) ==
    [op |-> op, ids |-> ids, vectors |-> vectors, payloads |-> payloads,
     raised |-> raised]

\* Lines 397-403 and 439-455: the client is connected, the collection
\* ensured, the loop variables set.
ingest_connect ==
    /\ ing.pc = "start"
    /\ Frame([ing EXCEPT !.client = "open",
                         !.pc = IF ing.mode = "full" THEN "loop"
                                ELSE "insert_loop"])

\* Lines 466-496: the payload and the text of recipe i are appended; then
\* the test whether to embed.
ingest_recipe ==
    /\ ing.pc = "loop"
    /\ ing.i < ing.total
    /\ LET texts == Append(ing.embedding_texts, all_embedding_texts[ing.i])
       IN  Frame([ing EXCEPT
                    !.embedding_texts = texts,
                    !.batch_ids = Append(@, ing.i),
                    !.batch_payloads = Append(@, all_payloads[ing.i]),
                    !.pc = IF \/ Len(texts) >= ing.embedding_batch_size
                              \/ ing.i = ing.total - 1
                           THEN "embed" ELSE "flush"])

\* Lines 499 or 504, then 506-508: the vectors are appended.
generate_embeddings_batch_ok ==
    /\ ing.pc \in {"embed", "embed_retry"}
    /\ Frame([ing EXCEPT
                 !.batch_vectors =
                     @ \o generate_embeddings_batch(ing.embedding_texts),
                 !.embedding_texts = <<>>,
                 !.pc = "flush"])

\* Line 499 raises: lines 500-503 wait and line 504 calls again.  Line 504
\* raises: nothing catches it but the finally of line 552.
generate_embeddings_batch_raises ==
    /\ ing.pc \in {"embed", "embed_retry"}
    /\ Frame(IF ing.pc = "embed"
             THEN [ing EXCEPT !.pc = "embed_retry", !.rate_limited = TRUE]
             ELSE [ing EXCEPT !.pc = "finally",
                              !.exc = Exc("429 RESOURCE_EXHAUSTED", "embed", 0)])

\* Line 518: the vectors left once those of the batch are taken.
RemainingVectorsKept(batch_vectors, n) == batch_vectors

RemainingVectors(batch_vectors, n) ==
    SubSeq(batch_vectors, n + 1, Len(batch_vectors))

\* Lines 514-518: the test whether to upsert; the vectors of the batch are
\* taken from the front of batch_vectors.
ingest_flush ==
    /\ ing.pc = "flush"
    /\ LET n == Len(ing.batch_ids)
       IN  Frame(IF /\ (n >= ing.batch_size \/ ing.i = ing.total - 1)
                    /\ n > 0
                    /\ Len(ing.batch_vectors) >= n
                 THEN [ing EXCEPT
                         !.current_vectors = SubSeq(ing.batch_vectors, 1, n),
                         !.batch_vectors = RemainingVectors(@, n),
                         !.pc = "batch_upsert"]
                 ELSE [ing EXCEPT !.i = @ + 1, !.pc = "loop"])

\* Lines 404-407 (insert): the ids of the next batch, their vectors from
\* the file written by the mode generate, and their payloads.
insert_batch ==
    /\ ing.pc = "insert_loop"
    /\ ing.i < ing.total
    /\ LET hi == Min(ing.i + ing.batch_size, ing.total)
           ids == [k \in 1..(hi - ing.i) |-> ing.i + k - 1]
       IN  Frame([ing EXCEPT
                    !.batch_ids = ids,
                    !.current_vectors =
                        [k \in 1..Len(ids) |-> all_vectors[ids[k]]],
                    !.batch_payloads =
                        [k \in 1..Len(ids) |-> all_payloads[ids[k]]],
                    !.pc = "batch_upsert"])

\* Lines 535-544 and 423: the batch is counted and the next recipe (full)
\* or the next batch (insert) is gone to.
Processed(f) ==
    IF f.mode = "full"
    THEN [f EXCEPT !.processed = @ + Len(f.batch_ids),
                   !.batch_ids = <<>>, !.batch_payloads = <<>>,
                   !.i = @ + 1, !.pc = "loop"]
    ELSE [f EXCEPT !.processed = @ + Len(f.batch_ids),
                   !.i = @ + f.batch_size, !.pc = "insert_loop"]

\* The items zip(batch_ids, current_vectors, batch_payloads) yields.
ZipLen(f) ==
    Min(Len(f.batch_ids), Min(Len(f.current_vectors), Len(f.batch_payloads)))

\* Lines 521-523 and 410-412: the batch upsert returns.
batch_upsert_recipes_ok ==
    /\ ing.pc = "batch_upsert"
    /\ Frame(Processed([ing EXCEPT
                !.upserts = Append(@, UpsertCall("batch", ing.batch_ids,
                    ing.current_vectors, ing.batch_payloads, FALSE))]))

\* Lines 524-527 and 413-415: the batch upsert raises and the recipes of
\* the batch are gone through one by one.
batch_upsert_recipes_raises ==
    /\ ing.pc = "batch_upsert"
    /\ LET f == [ing EXCEPT
                   !.upserts = Append(@, UpsertCall("batch", ing.batch_ids,
                       ing.current_vectors, ing.batch_payloads, TRUE)),
                   !.j = 1, !.pc = "fallback"]
       IN  Frame(IF ZipLen(f) = 0 THEN Processed(f) ELSE f)

\* A bug: the failure of one recipe's upsert leaves the loops.
upsert_recipe_failed_propagates(f) ==
    [f EXCEPT !.pc = "finally", !.exc = Exc("upsert failed", "upsert", 0)]

\* Lines 532-533 and 420-421: the failure of one recipe's upsert is
\* printed, and the next recipe of the batch, or the next batch, follows.
upsert_recipe_failed(f) ==
    IF f.j = ZipLen(f) THEN Processed(f) ELSE [f EXCEPT !.j = @ + 1]

\* The upsert of recipe j of the batch, as it was called.
UpsertOne(f, raised) ==
    [f EXCEPT !.upserts = Append(@, UpsertCall("single",
        <<f.batch_ids[f.j]>>, <<f.current_vectors[f.j]>>,
        <<f.batch_payloads[f.j]>>, raised))]

\* Lines 531 and 419: upsert_recipe returns.
upsert_recipe_ok ==
    /\ ing.pc = "fallback"
    /\ LET f == UpsertOne(ing, FALSE)
       IN  Frame(IF f.j = ZipLen(f) THEN Processed(f)
                 ELSE [f EXCEPT !.j = @ + 1])

\* Lines 531-533 and 419-421: upsert_recipe raises.
upsert_recipe_raises ==
    /\ ing.pc = "fallback"
    /\ Frame(upsert_recipe_failed(UpsertOne(ing, TRUE)))

\* Lines 546-550 and 430-432: the loop is over, the count is printed.
ingest_complete ==
    /\ ing.pc \in {"loop", "insert_loop"}
    /\ ing.i >= ing.total
    /\ Frame([ing EXCEPT !.completed = TRUE, !.pc = "finally"])

\* Lines 552-553 and 434-435: finally, client.close().
ingest_client_close ==
    /\ ing.pc = "finally"
    /\ Frame([ing EXCEPT !.client = "closed", !.pc = "done"])

(***************************************************************************)
(* gemini._get_embedder and gemini.generate_embedding, statement by        *)
(* statement.  scan_pantry is a plain def, so FastAPI runs each request in *)
(* a thread of its pool (main.py lines 52-57) and the threads interleave   *)
(* between these statements: loading the model reads files and releases    *)
(* the interpreter lock, and no lock of the module guards _embedder.       *)
(***************************************************************************)
\* A thread of the pool outside generate_embedding: model is the instance
\* _get_embedder returned to it last, loaded the instance it constructed.
IdleCaller == [pc |-> "idle", calls |-> 0, loaded |-> 0, model |-> 0]

\* No thread calls generate_embedding and the model is not loaded.
NotLoading ==
    /\ _embedder = 0
    /\ constructed = 0
    /\ ge = [r \in Requests |-> [IdleCaller EXCEPT !.pc = "off"]]

\* ge with thread r replaced by rec.
UpdCaller(r, rec) ==
    /\ ge' = [ge EXCEPT ![r] = rec]
    /\ UNCHANGED <<Globals, th, Applied, ing>>

\* Line 101: generate_embedding(text) calls _get_embedder().
generate_embedding(r) ==
    /\ ge[r].pc = "idle"
    /\ ge[r].calls < MaxEmbedCalls
    /\ UNCHANGED <<_embedder, constructed>>
    /\ UpdCaller(r, [ge[r] EXCEPT !.pc = "test", !.calls = @ + 1])

\* Line 35: if _embedder is None.
get_embedder_test(r) ==
    /\ ge[r].pc = "test"
    /\ UNCHANGED <<_embedder, constructed>>
    /\ UpdCaller(r, [ge[r] EXCEPT
                       !.pc = IF _embedder = 0 THEN "construct" ELSE "return"])

\* Lines 36-40, right-hand side: SentenceTransformer(model_name) returns a
\* new instance.
SentenceTransformer_ok(r) ==
    /\ ge[r].pc = "construct"
    /\ constructed' = constructed + 1
    /\ UNCHANGED _embedder
    /\ UpdCaller(r, [ge[r] EXCEPT !.pc = "assign", !.loaded = constructed + 1])

\* Lines 36-40: the import or the constructor raises (no such model, no
\* memory); nothing catches it and generate_embedding is left.
SentenceTransformer_raises(r) ==
    /\ ge[r].pc = "construct"
    /\ UNCHANGED <<_embedder, constructed>>
    /\ UpdCaller(r, [ge[r] EXCEPT !.pc = "idle", !.model = 0])

\* Line 40, the store: _embedder = <the instance>.
get_embedder_assign(r) ==
    /\ ge[r].pc = "assign"
    /\ _embedder' = ge[r].loaded
    /\ UNCHANGED constructed
    /\ UpdCaller(r, [ge[r] EXCEPT !.pc = "return"])

\* Line 43: return _embedder, a read of the global; line 101: model = it.
get_embedder_return(r) ==
    /\ ge[r].pc = "return"
    /\ UNCHANGED <<_embedder, constructed>>
    /\ UpdCaller(r, [ge[r] EXCEPT !.pc = "encode", !.model = _embedder])

\* Lines 102-103: model.encode(text), and the vector is returned.
model_encode(r) ==
    /\ ge[r].pc = "encode"
    /\ UNCHANGED <<_embedder, constructed>>
    /\ UpdCaller(r, [ge[r] EXCEPT !.pc = "idle"])

(***************************************************************************)
(* The specifications.                                                     *)
(***************************************************************************)
Step(r) ==
    \/ scan_pantry(r)
    \/ analyze_image_open(r)
    \/ generate_content_ok(r)
    \/ generate_content_raises(r)
    \/ time_sleep(r)
    \/ swp_compose(r)
    \/ generate_embedding_ok(r)
    \/ generate_embedding_raises(r)
    \/ swp_filter(r)
    \/ client_connect_ok(r)
    \/ client_connect_raises(r)
    \/ search_recipes_ok(r)
    \/ search_recipes_raises(r)
    \/ client_close_ok(r)
    \/ client_close_raises(r)
    \/ swp_format(r)
    \/ rdp_after_vision(r)
    \/ rdp_after_search(r)
    \/ Return(r)
    \/ ram_set_image(r)
    \/ ram_set_preferences(r)
    \/ executor_stops(r)
    \/ llm_raises(r)
    \/ llm_finishes(r)
    \/ analyze_pantry_image(r)
    \/ search_recipes_tool(r)
    \/ tool_done(r)
    \/ ram_parse(r)
    \/ ram_tail(r)
    \/ respond(r)
    \/ respond_error(r)

Next == \E r \in Requests : Step(r)

\* A request: its image and its preferences.
Request(image, preferences) ==
    [IdleThread EXCEPT !.image_bytes = image, !.preferences = preferences]

\* One request, with any image and any preferences.
Init ==
    /\ USE_AGENT \in BOOLEAN
    /\ _current_image_bytes = ""
    /\ _current_preferences = DefaultPreferences
    /\ call = NoCall
    /\ ret = NoVal
    /\ NotLoading
    /\ NotIngesting
    /\ \E image \in Images, preferences \in PrefChoices :
         th = [r \in Requests |->
                 IF r = 1 THEN Request(image, preferences)
                 ELSE [IdleThread EXCEPT !.pc = "off"]]

Spec == Init /\ [][Next]_vars

\* The image and the preferences of request r when several run at once.
ImageOf(r) == IF r % 2 = 1 THEN "imgA" ELSE "imgB"

PreferencesOf(r) ==
    IF r % 2 = 1 THEN DefaultPreferences
    ELSE CHOOSE p \in PrefChoices : p # DefaultPreferences

\* NumRequests requests arrive together, each with its own image and its
\* own preferences.
InitConc ==
    /\ USE_AGENT \in BOOLEAN
    /\ _current_image_bytes = ""
    /\ _current_preferences = DefaultPreferences
    /\ call = NoCall
    /\ ret = NoVal
    /\ NotLoading
    /\ NotIngesting
    /\ th = [r \in Requests |-> Request(ImageOf(r), PreferencesOf(r))]

\* The steps of a request when no external call fails.
StepNoFault(r) ==
    \/ scan_pantry(r)
    \/ analyze_image_open(r)
    \/ generate_content_ok(r)
    \/ swp_compose(r)
    \/ generate_embedding_ok(r)
    \/ swp_filter(r)
    \/ client_connect_ok(r)
    \/ search_recipes_ok(r)
    \/ client_close_ok(r)
    \/ swp_format(r)
    \/ rdp_after_vision(r)
    \/ rdp_after_search(r)
    \/ Return(r)
    \/ ram_set_image(r)
    \/ ram_set_preferences(r)
    \/ executor_stops(r)
    \/ llm_finishes(r)
    \/ analyze_pantry_image(r)
    \/ search_recipes_tool(r)
    \/ tool_done(r)
    \/ ram_parse(r)
    \/ ram_tail(r)
    \/ respond(r)

NextConc == \E r \in Requests : StepNoFault(r)

\* Concurrent requests in a run where no external call fails: every
\* behaviour of SpecConc is a behaviour of the program.
SpecConc == InitConc /\ [][NextConc]_vars

(***************************************************************************)
(* The functions of the search applied on their own: the ranker, its       *)
(* scores, the filter builder with the store's search, the tag inference   *)
(* of ingestion, and the query text.                                       *)
(***************************************************************************)
\* Sequences of length at most n over S.
SeqsUpTo(S, n) == UNION {[1..k -> S] : k \in 0..n}

\* Hits of a well-kept collection, two of them with the same scores.
HitRisotto ==
    [id |-> 3, score |-> 650,
     payload |-> [title |-> "Risotto", ingredients |-> PyList(<<"rice">>),
                  directions |-> PyList(<<"stir">>)]]

\* A hit whose fields are JSON texts: a list, and a text that is no JSON.
HitEncoded ==
    [id |-> 4, score |-> 830,
     payload |-> [title |-> "Crepes",
                  ingredients |-> PyStr("[\"egg\", \"flour\"]"),
                  directions |-> PyStr("mix, then fry")]]

\* A hit whose ingredients are a text that is no JSON.
HitRaw ==
    [id |-> 5, score |-> 500,
     payload |-> [title |-> "Seasoning",
                  ingredients |-> PyStr("salt, pepper"),
                  directions |-> PyStr("[\"mix\"]")]]

\* A hit whose ingredients are valid JSON that is no list.
HitNumber ==
    [id |-> 6, score |-> 900,
     payload |-> [title |-> "Forty-two", ingredients |-> PyStr("42"),
                  directions |-> PyList(<<>>)]]

RankHits == {HitRice, HitPancakes, HitRisotto, HitEncoded, HitRaw, HitNumber}

\* Values of payload["ingredients"]: native lists, and texts holding a JSON
\* list, JSON that is no list, or no JSON.
IngredientFields ==
    {PyList(<<>>), PyList(<<"egg and flour mix">>), PyList(<<"Rice", "salt">>),
     PyStr("[]"), PyStr("[\"rice\"]"), PyStr("[1, 2]"),
     PyStr("\"salt\""), PyStr("{\"a\": 1}"), PyStr("null"), PyStr("true"),
     PyStr("rice"), PyStr("")}

\* Scores of the store in thousandths: a cosine similarity, and values
\* outside [0, 1] other metrics give.
HitScores == {-250, 0, 290, 999, 1000, 1500}

\* Single hits with every field value and every score.
WideHits ==
    {[id |-> 1, score |-> score,
      payload |-> [title |-> "Dish", ingredients |-> field,
                   directions |-> PyStr("[\"cook\"]")]] :
        field \in IngredientFields, score \in HitScores}

\* Detected ingredient names handed to the ranker.
DetectedLists == {<<"rice">>, <<"egg", "flour">>, <<"Egg", "flour", "salt", "a">>}

\* Restrictions and skill levels a user may send.
DietaryChoices ==
    {<<>>, <<"vegetarian">>, <<"Vegetarian ", "gluten-free">>, <<"keto">>,
     <<"vegan", "halal">>, <<"dairy-free", "nut-free">>, <<"vegan">>}

SkillChoices ==
    {None, "", "beginner", "Intermediate", "advanced", "expert", "beginner "}

\* The collection: point id |-> payload, the id being the index of the
\* recipe in the file (ingest_recipes.py line 492).
Collection == all_payloads

\* A point with payload p passes one must-condition of a filter: the field
\* is there and has the value (eq), or is at most the bound (lte).
Satisfies(p, cond) ==
    /\ cond.field \in DOMAIN p
    /\ IF "eq" \in DOMAIN cond
       THEN p[cond.field] = cond.eq
       ELSE p[cond.field] <= cond.lte

\* client.search(**kwargs): the ids of the points that pass every
\* must-condition of the filter, all points when no filter is sent.
client_search(kwargs) ==
    {id \in DOMAIN Collection :
        "filter" \in DOMAIN kwargs =>
            \A i \in 1..Len(kwargs.filter) :
                Satisfies(Collection[id], kwargs.filter[i])}

\* Words of ingredient lists.
IngredientWords ==
    {"rice", "Chicken breast", "salmon", "Butter", "eggplant", "flour",
     "peanut butter", "shrimp"}

\* Preferences the query text is composed for.
QueryPreferences ==
    {[DefaultPreferences EXCEPT !.cuisine_preferences = cuisine,
                                !.meal_type = meal_type,
                                !.additional_prompt = additional_prompt] :
        cuisine \in {<<>>, <<"italian">>, <<"italian", "thai">>},
        meal_type \in {None, "", "dinner"},
        additional_prompt \in {None, "", "quick"}}

\* Step counts of recipes, around every threshold of the skill levels.
StepCounts == (0..10) \cup (997..LongestRecipe)

\* The applications SpecPure starts from.
Calls ==
    {[fn |-> "_format_results", results |-> results,
      ingredient_names |-> ingredient_names] :
        results \in SeqsUpTo(RankHits, MaxHits) \cup {<<h>> : h \in WideHits},
        ingredient_names \in DetectedLists}
    \cup {[fn |-> "match_pct", matches |-> matches, n_raw |-> n_raw] :
            matches \in 0..MaxMatches, n_raw \in 0..MaxTotal}
    \cup {[fn |-> "vector_match", score |-> score] : score \in -1000..2000}
    \cup {[fn |-> "blended_match", match_pct |-> match_pct,
           vector_match |-> vector_match] :
            match_pct \in 0..100, vector_match \in 0..100}
    \cup {[fn |-> "build_recipe_filter",
           dietary_restrictions |-> dietary_restrictions,
           skill_level |-> skill_level] :
            dietary_restrictions \in DietaryChoices,
            skill_level \in SkillChoices}
    \cup {[fn |-> "infer_dietary_tags", ingredients |-> ingredients] :
            ingredients \in SeqsUpTo(IngredientWords, MaxIngredients)}
    \cup {[fn |-> "query_text", ingredient_names |-> ingredient_names,
           preferences |-> preferences] :
            ingredient_names \in DetectedLists,
            preferences \in QueryPreferences}
    \cup {[fn |-> "skill_filter", num_steps |-> num_steps,
           skill_level |-> skill_level] :
            num_steps \in StepCounts, skill_level \in SkillChoices}

\* No request is served.
NoRequests ==
    /\ USE_AGENT = FALSE
    /\ _current_image_bytes = ""
    /\ _current_preferences = DefaultPreferences
    /\ th = [r \in Requests |-> [IdleThread EXCEPT !.pc = "off"]]

InitPure ==
    /\ NoRequests
    /\ NotLoading
    /\ NotIngesting
    /\ call \in Calls
    /\ ret = NoVal

\* The function applied returns v.
Returns(v) ==
    /\ ret = NoVal
    /\ ret' = [kind |-> "returned", v |-> v]
    /\ UNCHANGED <<Globals, th, call, Loader, ing>>

\* agent._format_results(results, ingredient_names) returns or raises.
call_format_results ==
    /\ call.fn = "_format_results"
    /\ ret = NoVal
    /\ LET formatted == _format_results(call.results, call.ingredient_names)
       IN  ret' = IF formatted.raised # ""
                  THEN [kind |-> "raised", exc |-> formatted.raised]
                  ELSE [kind |-> "returned", v |-> formatted.recipes]
    /\ UNCHANGED <<Globals, th, call, Loader, ing>>

\* Lines 60-61 of _format_results.
call_match_pct ==
    /\ call.fn = "match_pct"
    /\ Returns(MatchPct(call.matches, call.n_raw))

\* Line 64 of _format_results.
call_vector_match ==
    /\ call.fn = "vector_match"
    /\ Returns(VectorMatch(call.score))

\* Lines 65-66 of _format_results.
call_blended_match ==
    /\ call.fn = "blended_match"
    /\ Returns(BlendedMatch(call.match_pct, call.vector_match))

\* vector_db.build_recipe_filter(dietary_restrictions, skill_level)
call_build_recipe_filter ==
    /\ call.fn = "build_recipe_filter"
    /\ ret = NoVal
    /\ ret' = [kind |-> "filter",
               db_filter |-> build_recipe_filter(call.dietary_restrictions,
                                                 call.skill_level)]
    /\ UNCHANGED <<Globals, th, call, Loader, ing>>

\* vector_db.search_recipes(client, query_vector, 10, db_filter) with the
\* filter that was built.
call_search_recipes ==
    /\ call.fn = "build_recipe_filter"
    /\ ret.kind = "filter"
    /\ LET kwargs == search_recipes_kwargs(
                        [kind |-> "vector", text |-> ""], TOP_K, ret.db_filter)
       IN  ret' = [kind |-> "hits", db_filter |-> ret.db_filter,
                   kwargs |-> kwargs, ids |-> client_search(kwargs)]
    /\ UNCHANGED <<Globals, th, call, Loader, ing>>

\* ingest_recipes.infer_dietary_tags(ingredients)
call_infer_dietary_tags ==
    /\ call.fn = "infer_dietary_tags"
    /\ Returns(infer_dietary_tags(call.ingredients))

\* Lines 99-108 of _search_with_preferences.
call_query_text ==
    /\ call.fn = "query_text"
    /\ Returns(QueryText(call.ingredient_names, call.preferences))

\* A recipe of num_steps steps is ingested (ingest_recipes.py lines
\* 341-355), then searched with the filter built for skill_level alone.
call_skill_filter ==
    /\ call.fn = "skill_filter"
    /\ LET payload == [num_steps |-> call.num_steps,
                       skill_level |-> infer_skill_level(call.num_steps)]
           db_filter == build_recipe_filter(<<>>, call.skill_level)
       IN  Returns([skill_level |-> payload.skill_level,
                    found |-> \A i \in 1..Len(db_filter) :
                                Satisfies(payload, db_filter[i])])

NextPure ==
    \/ call_skill_filter
    \/ call_format_results
    \/ call_match_pct
    \/ call_vector_match
    \/ call_blended_match
    \/ call_build_recipe_filter
    \/ call_search_recipes
    \/ call_infer_dietary_tags
    \/ call_query_text

\* One function of the search, applied to one input.
SpecPure == InitPure /\ [][NextPure]_vars

\* ingest is called in the mode full or insert, on a file of up to
\* MaxRecipes recipes, with positive batch sizes.
InitIngest ==
    /\ NoRequests
    /\ NotLoading
    /\ call = NoCall
    /\ ret = NoVal
    /\ \E mode \in {"full", "insert"}, total \in 0..MaxRecipes,
          batch_size \in 1..MaxBatchSize,
          embedding_batch_size \in 1..MaxBatchSize :
         ing = [IngestOff EXCEPT
                  !.pc = "start", !.mode = mode, !.total = total,
                  !.batch_size = batch_size,
                  !.embedding_batch_size = embedding_batch_size]

NextIngest ==
    \/ ingest_connect
    \/ ingest_recipe
    \/ generate_embeddings_batch_ok
    \/ generate_embeddings_batch_raises
    \/ ingest_flush
    \/ insert_batch
    \/ batch_upsert_recipes_ok
    \/ batch_upsert_recipes_raises
    \/ upsert_recipe_ok
    \/ upsert_recipe_raises
    \/ ingest_complete
    \/ ingest_client_close

\* One run of the ingestion script.
SpecIngest == InitIngest /\ [][NextIngest]_vars

\* The script is one thread: while a statement is left to run, it runs,
\* and every call of the store or of the model returns or raises.
SpecIngestLive == SpecIngest /\ WF_vars(NextIngest)

\* The threads of the pool call generate_embedding, the model not loaded.
InitEmbed ==
    /\ NoRequests
    /\ NotIngesting
    /\ call = NoCall
    /\ ret = NoVal
    /\ _embedder = 0
    /\ constructed = 0
    /\ ge = [r \in Requests |-> IdleCaller]

StepEmbed(r) ==
    \/ generate_embedding(r)
    \/ get_embedder_test(r)
    \/ SentenceTransformer_ok(r)
    \/ SentenceTransformer_raises(r)
    \/ get_embedder_assign(r)
    \/ get_embedder_return(r)
    \/ model_encode(r)

NextEmbed == \E r \in Requests : StepEmbed(r)

\* Concurrent calls of generate_embedding in one process.
SpecEmbed == InitEmbed /\ [][NextEmbed]_vars

(***************************************************************************)
(* Vocabulary of the properties.                                           *)
(***************************************************************************)
\* Number of times event e occurs in a trace.
Count(trace, e) == Cardinality({i \in 1..Len(trace) : trace[i] = e})

\* The trace without the attempts of the vision call.
AfterVision(trace) == SelectSeq(trace, LAMBDA e : e # "vision")

\* Labels inside gemini.analyze_image.
AnalyzeLabels == {"ai_open", "ai_attempt", "ai_sleep", "ai_return"}

\* Labels inside agent._search_with_preferences.
SearchLabels ==
    {"swp_compose", "swp_embed", "swp_filter", "swp_connect", "swp_search",
     "swp_finally", "swp_format", "swp_return"}

\* The request is over with an exception, or the exception is on its way
\* to scan_pantry.
Failing(r) == th[r].pc \in {"raising", "done"} /\ th[r].exc # NoExc

\* Label l is on the stack of thread r.
OnStack(r, l) == \E i \in 1..Len(th[r].stack) : th[r].stack[i] = l

\* Thread r is inside run_direct_pipeline (or left it by an exception).
InDirect(r) == th[r].pc \in {"rdp_vision_done", "rdp_search_done", "rdp_return"}
               \/ OnStack(r, "rdp_vision_done") \/ OnStack(r, "rdp_search_done")

\* Error messages that are rate-limit or transient-server shaped, and
\* those that are not, as the specification classifies them.
TransientMessages == {"429 RESOURCE_EXHAUSTED", "504 Deadline Exceeded"}

PermanentMessages == {"401 UNAUTHENTICATED", "400 INVALID_ARGUMENT"}

EmptyResult ==
    [kind |-> "result", detected_ingredients |-> <<>>, recipes |-> <<>>]

(***************************************************************************)
(* C1.  When the vision step of run_direct_pipeline detects no ingredient, *)
(* the pipeline returns {detected_ingredients: [], recipes: []} and that   *)
(* invocation makes no embedding call, creates and connects no vector      *)
(* store client and issues no search.                                      *)
(***************************************************************************)
C1_EmptyShortCircuit ==
    \A r \in Requests :
        /\ (th[r].pc = "rdp_return" /\ th[r].rdp_ingredient_names = <<>>)
             => /\ th[r].retval = EmptyResult
                /\ \A e \in {"compose", "embed", "get_client", "connect",
                             "search", "rank"} : Count(th[r].trace, e) = 0
        /\ (th[r].pc = "rdp_search_done" \/ OnStack(r, "rdp_search_done"))
             => th[r].rdp_ingredient_names # <<>>

C1_Witness ==
    \E r \in Requests :
        /\ th[r].pc = "rdp_return"
        /\ th[r].rdp_ingredient_names = <<>>
        /\ Count(th[r].trace, "vision") > 0
        /\ th[r].retval = EmptyResult

(***************************************************************************)
(* C2.  A call of analyze_image makes at most 3 attempts of the wrapped    *)
(* call; when 3 attempts fail with retryable errors the error of the third *)
(* attempt is the one that propagates, and only two waits have happened    *)
(* (none after the third attempt).                                         *)
(***************************************************************************)
C2_AtMostThreeAttempts ==
    \A r \in Requests :
        /\ Count(th[r].trace, "vision") <= 3
        /\ Len(th[r].errors) <= 3
        /\ th[r].attempt <= 2
        /\ (/\ Len(th[r].errors) = 3
            /\ \A k \in 1..3 : th[r].errors[k].msg \in TransientMessages)
             => /\ Failing(r)
                /\ th[r].exc = th[r].errors[3]
                /\ th[r].exc.n = 2
                /\ Len(th[r].waits) = 2

C2_Witness ==
    \E r \in Requests :
        /\ th[r].pc = "raising"
        /\ Len(th[r].errors) = 3
        /\ \A k \in 1..3 : th[r].errors[k].msg \in TransientMessages
        /\ th[r].errors[3].msg # th[r].errors[1].msg
        /\ th[r].exc = th[r].errors[3]

(***************************************************************************)
(* C3.  After the retryable failure of attempt k (k = 0, 1) exactly one    *)
(* wait of 2 * 2^k seconds happens before attempt k+1: the waits of a call *)
(* are 2 s, then 4 s, one per failed attempt that is retried; a call that  *)
(* fails twice and then succeeds returns after the waits <<2, 4>>.         *)
(***************************************************************************)
C3_BackoffSchedule ==
    \A r \in Requests :
        /\ \A k \in 1..Len(th[r].waits) :
              th[r].waits[k] = (IF k = 1 THEN 2 ELSE 4)
        /\ Len(th[r].waits) <= 2
        /\ th[r].pc \in {"ai_attempt", "ai_return"}
             => /\ Len(th[r].waits) = Len(th[r].errors)
                /\ Count(th[r].trace, "vision")
                     = Len(th[r].errors) + (IF th[r].pc = "ai_return" THEN 1 ELSE 0)
        /\ th[r].pc = "ai_sleep"
             => Len(th[r].waits) = Len(th[r].errors) - 1
        /\ (th[r].pc = "ai_return" /\ Len(th[r].errors) = 2)
             => th[r].waits = <<2, 4>> /\ th[r].retval.kind = "inventory"

C3_Witness ==
    \E r \in Requests :
        /\ th[r].pc = "ai_return"
        /\ Len(th[r].errors) = 2
        /\ \A k \in 1..2 : th[r].errors[k].msg = "429 RESOURCE_EXHAUSTED"
        /\ th[r].waits = <<2, 4>>
        /\ th[r].retval.kind = "inventory"

(***************************************************************************)
(* C4.  An attempt of analyze_image that fails with an error that is not   *)
(* rate-limit or transient-server shaped is the last attempt of the call,  *)
(* whatever its index: that error propagates at once, with no wait after   *)
(* it.                                                                     *)
(***************************************************************************)
C4_PermanentErrorPropagates ==
    \A r \in Requests :
        \A k \in 1..Len(th[r].errors) :
            th[r].errors[k].msg \in PermanentMessages
              => /\ k = Len(th[r].errors)
                 /\ Failing(r)
                 /\ th[r].exc = th[r].errors[k]
                 /\ Len(th[r].waits) = k - 1
                 /\ Count(th[r].trace, "vision") = k

C4_Witness ==
    \E r \in Requests :
        /\ th[r].pc = "raising"
        /\ Len(th[r].errors) = 1
        /\ th[r].errors[1].msg \in PermanentMessages
        /\ th[r].waits = <<>>
        /\ Count(th[r].trace, "vision") = 1

AgentRunFailed(r) ==
    \/ th[r].in_executor /\ Failing(r)
    \/ /\ th[r].output # NoVal
       /\ th[r].pc # "ram_parse"
       /\ (th[r].output.json # "object" \/ th[r].output.recipes = <<>>)

C6_AgentFallsBack ==
    \A r \in Requests :
        (th[r].pc = "done" /\ AgentRunFailed(r))
          => /\ th[r].fallback
             /\ Count(th[r].trace, "vision") > 0

(***************************************************************************)
(* C7.  No per-request state is shared: with requests running              *)
(* concurrently in agent mode, every image analysis made for a request     *)
(* uses that request's image bytes and every recipe search made for a      *)
(* request uses that request's preferences.                                *)
(***************************************************************************)
C7_RequestsIsolated ==
    \A r \in Requests :
        /\ th[r].pc \in AnalyzeLabels => th[r].img = th[r].image_bytes
        /\ th[r].pc \in SearchLabels => th[r].swp_preferences = th[r].preferences

(***************************************************************************)
(* C8.  The vector store client is scoped to one invocation of             *)
(* _search_with_preferences: a client is open only between get_client and  *)
(* the finally clause; whether the search succeeds, connect raises or the  *)
(* search raises, close has been called on it when the invocation returns  *)
(* or raises; and the search is issued only on a connected client.         *)
(***************************************************************************)
C8_ClientScoped ==
    \A r \in Requests :
        /\ th[r].client \in {"created", "connected"}
             => th[r].pc \in {"swp_connect", "swp_search", "swp_finally"}
        /\ th[r].pc \in {"swp_format", "swp_return"} => th[r].client = "closed"
        /\ (Failing(r) /\ th[r].exc.src \in {"connect", "search", "close"})
             => th[r].client = "closed"
        /\ Count(th[r].trace, "close") = Count(th[r].trace, "get_client")
             \/ th[r].pc \in {"swp_connect", "swp_search", "swp_finally"}
        /\ th[r].pc = "swp_search" => th[r].client = "connected"
        /\ \A i \in 1..Len(th[r].trace) :
              th[r].trace[i] = "search"
                => i > 1 /\ th[r].trace[i - 1] = "connect"

C8_Witness ==
    \E r \in Requests :
        /\ th[r].pc = "raising"
        /\ th[r].exc.src = "search"
        /\ th[r].client = "closed"
        /\ th[r].trace[Len(th[r].trace)] = "close"

(***************************************************************************)
(* C9.  In direct mode a failure of the embed call or of the vector search *)
(* aborts the request: the exception leaves run_direct_pipeline (the       *)
(* failure itself, or the error of close with the failure as its context), *)
(* the Ranker is never run and no result dictionary is returned.           *)
(***************************************************************************)
\* The embed call or the search of thread r has failed.
EmbedOrSearchFailed(r) ==
    \/ th[r].exc.src \in {"embed", "search"}
    \/ th[r].pending.src = "search"

C9_FailureAborts ==
    \A r \in Requests :
        (InDirect(r) /\ EmbedOrSearchFailed(r))
          => /\ th[r].pc \in {"swp_finally", "raising", "done"}
             /\ Count(th[r].trace, "rank") = 0
             /\ th[r].retval = NoVal
             /\ th[r].pc # "swp_finally"
                  => /\ th[r].exc.src \in {"embed", "search", "close"}
                     /\ th[r].exc.src = "close" => th[r].pending.src = "search"
             /\ th[r].pc = "done"
                  => th[r].response = [status |-> 500, body |-> th[r].exc]

C9_Witness ==
    \E r \in Requests :
        /\ InDirect(r)
        /\ ~USE_AGENT
        /\ th[r].pc = "done"
        /\ th[r].exc.src = "search"
        /\ th[r].response.status = 500
        /\ Count(th[r].trace, "rank") = 0

(***************************************************************************)
(* C10.  A successful run of the direct pipeline with at least one         *)
(* detected ingredient makes, after the vision step, exactly the calls     *)
(* compose query, embed, build filter, get client, connect, search, close, *)
(* rank, once each and in this order, and the search is issued with        *)
(* top_k = 10.                                                             *)
(***************************************************************************)
C10_FixedSequence ==
    \A r \in Requests :
        (th[r].pc = "rdp_return" /\ th[r].rdp_ingredient_names # <<>>)
          => /\ AfterVision(th[r].trace)
                  = <<"compose", "embed", "filter", "get_client", "connect",
                      "search", "close", "rank">>
             /\ th[r].search_kwargs.top_k = 10
             /\ th[r].retval.detected_ingredients = th[r].rdp_ingredient_names

C10_Witness ==
    \E r \in Requests :
        /\ th[r].pc = "rdp_return"
        /\ th[r].rdp_ingredient_names = <<"egg", "flour">>
        /\ Len(th[r].retval.recipes) = 2
        /\ th[r].retval.recipes[1].id = 7
        /\ th[r].search_kwargs.top_k = 10

(***************************************************************************)
(* Vocabulary of the properties of SpecPure.                               *)
(***************************************************************************)
\* The function fn was applied and returned.
Returned(fn) == call.fn = fn /\ ret.kind = "returned"

\* The entries the ranker computes for the hits of the call, in the order
\* the store returned the hits.
Entries ==
    [i \in 1..Len(call.results) |->
        FormatHit(call.results[i], call.ingredient_names)]

(***************************************************************************)
(* C11.  For any list of hits the ranker returns for, its output is the    *)
(* stable descending sort of the hits' entries by match: one entry per     *)
(* hit, non-increasing in match, and entries of equal match in the order   *)
(* the store returned their hits.                                          *)
(***************************************************************************)
C11_StableDescendingSort ==
    Returned("_format_results") =>
        LET n == Len(call.results)
        IN  /\ Len(ret.v) = n
            /\ \A i \in 1..(n - 1) : ret.v[i].match >= ret.v[i + 1].match
            /\ \E p \in Permutations(1..n) :
                 /\ \A i \in 1..n : ret.v[i] = Entries[p[i]]
                 /\ \A i, j \in 1..n :
                      (i < j /\ ret.v[i].match = ret.v[j].match) => p[i] < p[j]

\* Three hits were ranked: the sort moved a hit forward, and two different
\* hits of equal match kept the order of the store.
C11_Witness ==
    /\ Returned("_format_results")
    /\ Len(call.results) = 3
    /\ Entries[2].match < Entries[3].match
    /\ ret.v[1] = Entries[1]
    /\ ret.v[2] = Entries[3]
    /\ ret.v[1].match = ret.v[2].match
    /\ ret.v[1].id # ret.v[2].id

(***************************************************************************)
(* C12.  Every recipe the ranker returns has an integer match in 0..100,   *)
(* whatever the number of detected ingredients, the number of recipe       *)
(* ingredients and the vector score; the overlap score is in 0..100, and   *)
(* for a vector score in [0, 1] so is vector_match.                        *)
(***************************************************************************)
C12_MatchInRange ==
    /\ Returned("_format_results") =>
         \A i \in 1..Len(ret.v) : ret.v[i].match \in 0..100
    /\ Returned("match_pct") => ret.v \in 0..100
    /\ (Returned("vector_match") /\ call.score \in 0..1000) => ret.v \in 0..100
    /\ Returned("blended_match") => ret.v \in 0..100

\* A hit with a score above 1 and more matched names than it has
\* ingredients was ranked, and its match is 100.
C12_Witness ==
    /\ Returned("_format_results")
    /\ Len(call.results) = 1
    /\ call.results[1].score > 1000
    /\ LET raw == decode_field(call.results[1].payload.ingredients)
       IN  /\ raw.py = "list"
           /\ Matches(raw.items, call.ingredient_names) > Len(raw.items)
    /\ ret.v[1].match = 100

\* round(n / d) for n >= 0 and d > 0: the nearest integer, the even one of
\* two that are equally near.
Round(n, d) ==
    LET q == n \div d
        r == n % d
    IN  IF 2 * r < d THEN q
        ELSE IF 2 * r > d THEN q + 1
        ELSE IF q % 2 = 0 THEN q ELSE q + 1

(***************************************************************************)
(* C13.  For every match_pct and vector_match in 0..100 the blended score  *)
(* of the ranker is round(0.4 * match_pct + 0.6 * vector_match), the       *)
(* integer nearest to (4 * match_pct + 6 * vector_match) / 10, clamped to  *)
(* 0..100.  The ranker truncates instead: 0.4 * 100 + 0.6 * 83 = 89.8      *)
(* gives 89.                                                               *)
(***************************************************************************)
C13_BlendIsRounded ==
    Returned("blended_match") =>
        ret.v = Min(Max(Round(4 * call.match_pct + 6 * call.vector_match, 10),
                        0), 100)

(***************************************************************************)
(* C14.  For every number of matched names and of recipe ingredients the   *)
(* overlap score of the ranker is                                          *)
(* min(100, round(100 * matched_count / max(1, total))).  The ranker       *)
(* truncates instead: 2 of 3 gives 66.                                     *)
(***************************************************************************)
C14_OverlapIsRounded ==
    Returned("match_pct") =>
        ret.v = Min(100, Round(100 * call.matches, Max(1, call.n_raw)))

\* The filter was built and the store searched with it.
Searched == call.fn = "build_recipe_filter" /\ ret.kind = "hits"

\* The payload flag a restriction token stands for: trimmed, lower-cased.
FlagOf(token) == "tag_" \o Lower(Strip(token))

\* The must-conditions of a filter on boolean flags.
FlagConditions(f) == SelectSeq(f, LAMBDA c : "eq" \in DOMAIN c)

(***************************************************************************)
(* C15.  build_recipe_filter builds a conjunction with one required        *)
(* condition tag_<restriction, lower-cased and trimmed> = true per         *)
(* restriction given, so a recipe is found only if it satisfies all of     *)
(* them; with no restriction and no skill level the filter is empty, and   *)
(* search_recipes then sends no filter and every recipe is a candidate.    *)
(***************************************************************************)
C15_FilterIsConjunction ==
    (call.fn = "build_recipe_filter" /\ ret.kind \in {"filter", "hits"}) =>
        LET d == call.dietary_restrictions
            flags == FlagConditions(ret.db_filter)
        IN  /\ Len(flags) = Len(d)
            /\ \A i \in 1..Len(d) :
                 flags[i] = [field |-> FlagOf(d[i]), eq |-> TRUE]
            /\ (Len(d) = 0 /\ call.skill_level \in {None, ""})
                 => ret.db_filter = <<>>
            /\ Searched =>
                 /\ \A id \in ret.ids : \A i \in 1..Len(d) :
                      /\ FlagOf(d[i]) \in DOMAIN Collection[id]
                      /\ Collection[id][FlagOf(d[i])] = TRUE
                 /\ ret.db_filter = <<>> =>
                      /\ "filter" \notin DOMAIN ret.kwargs
                      /\ ret.ids = DOMAIN Collection

\* Two restrictions were given, one of them in capitals with a blank: the
\* recipes found are those with both flags, and some recipe has only one.
C15_Witness ==
    /\ Searched
    /\ call.dietary_restrictions = <<"Vegetarian ", "gluten-free">>
    /\ call.skill_level = None
    /\ ret.ids = {id \in DOMAIN Collection :
                    /\ Collection[id]["tag_vegetarian"]
                    /\ Collection[id]["tag_gluten-free"]}
    /\ ret.ids # {}
    /\ \E id \in DOMAIN Collection \ ret.ids :
         Collection[id]["tag_vegetarian"] \/ Collection[id]["tag_gluten-free"]

(***************************************************************************)
(* C16.  The filter fails closed on an unknown restriction: when a token   *)
(* stands for a flag no ingested payload has (keto, halal), the filter is  *)
(* sent and no recipe is found.                                            *)
(***************************************************************************)
C16_UnknownTagFailsClosed ==
    Searched =>
        ((\E i \in 1..Len(call.dietary_restrictions) :
            \A id \in DOMAIN Collection :
                FlagOf(call.dietary_restrictions[i]) \notin DOMAIN Collection[id])
         => /\ "filter" \in DOMAIN ret.kwargs
            /\ ret.ids = {})

\* vegan and halal were asked for: nothing is found, though the collection
\* has vegan recipes.
C16_Witness ==
    /\ Searched
    /\ call.dietary_restrictions = <<"vegan", "halal">>
    /\ call.skill_level = None
    /\ ret.ids = {}
    /\ \E id \in DOMAIN Collection : Collection[id]["tag_vegan"]

(***************************************************************************)
(* C17.  The skill level bounds num_steps: beginner finds only recipes of  *)
(* at most 4 steps, intermediate of at most 8, and advanced or any other   *)
(* skill string excludes no recipe on account of its num_steps.  The       *)
(* filter bounds num_steps by 999 instead.                                 *)
(***************************************************************************)
C17_SkillBound ==
    (Searched /\ call.dietary_restrictions = <<>>) =>
        LET k == IF call.skill_level = None THEN "" ELSE Lower(call.skill_level)
        IN  ret.ids = {id \in DOMAIN Collection :
                         /\ k = "beginner" => Collection[id].num_steps <= 4
                         /\ k = "intermediate" => Collection[id].num_steps <= 8}

\* A keyword of the set occurs in the ingredient list.
KeywordPresent(keywords, ingredients) ==
    LET text == Join(" ", [i \in 1..Len(ingredients) |-> Lower(ingredients[i])])
    IN  \E kw \in keywords : Contains(text, kw)

DietaryTags ==
    {"vegetarian", "vegan", "gluten-free", "dairy-free", "nut-free",
     "shellfish-free"}

(***************************************************************************)
(* C18.  For every ingredient list infer_dietary_tags tags vegetarian iff  *)
(* no meat and no seafood keyword is present, vegan iff vegetarian and no  *)
(* dairy and no egg keyword is present, gluten-free, dairy-free, nut-free  *)
(* and shellfish-free iff no keyword of the respective set is present; and *)
(* each flag tag_<t> is true exactly when t is in dietary_tags.            *)
(***************************************************************************)
C18_TagsFollowKeywords ==
    Returned("infer_dietary_tags") =>
        LET has(keywords) == KeywordPresent(keywords, call.ingredients)
            tagged(t) == InTags(t, ret.v.dietary_tags)
        IN  /\ tagged("vegetarian")
                 <=> (~has(MEAT_KEYWORDS) /\ ~has(SEAFOOD_KEYWORDS))
            /\ tagged("vegan")
                 <=> (tagged("vegetarian") /\ ~has(DAIRY_KEYWORDS)
                      /\ ~has(EGG_KEYWORDS))
            /\ tagged("gluten-free") <=> ~has(GLUTEN_KEYWORDS)
            /\ tagged("dairy-free") <=> ~has(DAIRY_KEYWORDS)
            /\ tagged("nut-free") <=> ~has(NUT_KEYWORDS)
            /\ tagged("shellfish-free") <=> ~has(SHELLFISH_KEYWORDS)
            /\ \A i \in 1..Len(ret.v.dietary_tags) :
                 ret.v.dietary_tags[i] \in DietaryTags
            /\ DOMAIN ret.v = {"dietary_tags"} \cup {"tag_" \o t : t \in DietaryTags}
            /\ \A t \in DietaryTags : ret.v["tag_" \o t] = tagged(t)

\* A list with an egg keyword and nothing else: vegetarian, not vegan.
C18_Witness ==
    /\ Returned("infer_dietary_tags")
    /\ Len(call.ingredients) = 2
    /\ KeywordPresent(EGG_KEYWORDS, call.ingredients)
    /\ ~KeywordPresent(DAIRY_KEYWORDS, call.ingredients)
    /\ ret.v["tag_vegetarian"]
    /\ ~ret.v["tag_vegan"]
    /\ ret.v.dietary_tags =
         <<"vegetarian", "gluten-free", "dairy-free", "nut-free", "shellfish-free">>

\* s, or nothing when the Optional[str] is None or empty.
Clause(prefix, s) == IF s \in {None, ""} THEN "" ELSE prefix \o s

(***************************************************************************)
(* C19.  The query text is the clauses Ingredients, Cuisine, Meal type and *)
(* the additional prompt as it was given, joined by ". " in that order,    *)
(* each there only if its source is not empty: [egg, flour], [italian], no *)
(* meal type and the prompt quick give                                     *)
(* "Ingredients: egg, flour. Cuisine: italian. quick".                     *)
(***************************************************************************)
C19_QueryTextOrder ==
    Returned("query_text") =>
        LET p == call.preferences
        IN  /\ ret.v =
                 "Ingredients: " \o Join(", ", call.ingredient_names)
                 \o (IF p.cuisine_preferences = <<>> THEN ""
                     ELSE ". Cuisine: " \o Join(", ", p.cuisine_preferences))
                 \o Clause(". Meal type: ", p.meal_type)
                 \o Clause(". ", p.additional_prompt)
            /\ (/\ call.ingredient_names = <<"egg", "flour">>
                /\ p.cuisine_preferences = <<"italian">>
                /\ p.meal_type = None
                /\ p.additional_prompt = "quick")
                 => ret.v = "Ingredients: egg, flour. Cuisine: italian. quick"

\* The example of the claim was composed.
C19_Witness ==
    /\ Returned("query_text")
    /\ call.ingredient_names = <<"egg", "flour">>
    /\ call.preferences.cuisine_preferences = <<"italian">>
    /\ call.preferences.meal_type = None
    /\ call.preferences.additional_prompt = "quick"
    /\ ret.v = "Ingredients: egg, flour. Cuisine: italian. quick"

\* The field value is a text that json.loads does not parse.
Unparsable(field) == field.py = "str" /\ json_loads(field.s) = JSONDecodeError

(***************************************************************************)
(* C20.  The ranker never raises on the ingredients or directions field of *)
(* a payload: be it a list, a text holding a JSON list, a text holding     *)
(* JSON that is no list, or a text that is no JSON, _format_results        *)
(* returns an entry for the hit, and a text that does not parse is taken   *)
(* as the one-element list of that text.  The ranker raises TypeError on   *)
(* the ingredients "42" or "null".                                         *)
(***************************************************************************)
C20_DecodeNeverRaises ==
    call.fn = "_format_results" =>
        /\ ret.kind # "raised"
        /\ ret.kind = "returned" =>
             /\ Len(ret.v) = Len(call.results)
             /\ \A i \in 1..Len(call.results) :
                  LET payload == call.results[i].payload
                  IN  /\ Unparsable(payload.ingredients) =>
                           Entries[i].ingredients
                               = PyList(<<payload.ingredients.s>>)
                      /\ Unparsable(payload.directions) =>
                           Entries[i].directions
                               = PyList(<<payload.directions.s>>)

\* The rank of a skill level: beginner < intermediate < advanced.
SkillRank(level) ==
    IF level = "beginner" THEN 1 ELSE IF level = "intermediate" THEN 2 ELSE 3

(***************************************************************************)
(* C22.  Skill filtering finds the recipes at or below the requested       *)
(* level: a recipe whose level ingestion inferred from its num_steps       *)
(* passes the filter built for the requested skill iff that level is at    *)
(* or below the requested one, whatever its num_steps.  A recipe of more   *)
(* than 999 steps is advanced and is not found by an advanced user.        *)
(***************************************************************************)
C22_AtOrBelowRequested ==
    (Returned("skill_filter") /\ call.skill_level # None) =>
        LET requested == Lower(call.skill_level)
        IN  requested \in {"beginner", "intermediate", "advanced"} =>
                (ret.v.found <=>
                    SkillRank(ret.v.skill_level) <= SkillRank(requested))

(***************************************************************************)
(* C25.  The lazily loaded embedding model is constructed at most once     *)
(* per process: however the concurrent calls of generate_embedding         *)
(* interleave, SentenceTransformer is instantiated at most one time and    *)
(* every caller encodes with that same instance.  Two threads that both    *)
(* find _embedder None both construct one.                                 *)
(***************************************************************************)
C25_LoadedOnce ==
    /\ constructed <= 1
    /\ \A r1, r2 \in Requests :
         (ge[r1].model # 0 /\ ge[r2].model # 0) => ge[r1].model = ge[r2].model

\* The batch upserts issued so far, in order.
BatchUpserts == SelectSeq(ing.upserts, LAMBDA u : u.op = "batch")

(***************************************************************************)
(* C23.  In the mode full, --batch-size is the number of recipes of a      *)
(* batch upsert: whatever batch_size and embedding_batch_size are, no      *)
(* batch upsert carries more than batch_size recipes.  With an embedding   *)
(* batch larger than batch_size the batch grows until the vectors come.    *)
(***************************************************************************)
C23_BatchSizeRespected ==
    ing.mode = "full" =>
        \A k \in 1..Len(BatchUpserts) :
            Len(BatchUpserts[k].ids) <= ing.batch_size

\* The ids of the calls of a log of upserts, one after the other.
RECURSIVE IdsOf(_)
IdsOf(log) ==
    IF log = <<>> THEN <<>> ELSE Head(log).ids \o IdsOf(Tail(log))

\* No call of the store or of the model has raised.
NoFailure ==
    /\ ing.exc = NoExc
    /\ ~ing.rate_limited
    /\ \A k \in 1..Len(ing.upserts) : ~ing.upserts[k].raised

\* An upsert carries, for each of its ids, the payload of the recipe of
\* that index and the vector of that recipe's text.
Aligned(u) ==
    /\ Len(u.vectors) = Len(u.ids)
    /\ Len(u.payloads) = Len(u.ids)
    /\ \A m \in 1..Len(u.ids) :
         /\ u.payloads[m] = Payload(RecipeAt(u.ids[m]))
         /\ u.vectors[m] =
              [kind |-> "vector",
               text |-> build_embedding_text(RecipeAt(u.ids[m]))]

(***************************************************************************)
(* C24.  In the mode full with no failure, whatever the number of recipes  *)
(* and the positive batch sizes: every upsert has ids, vectors and         *)
(* payloads of equal length, and carries for id i the payload of recipe i  *)
(* and the vector of recipe i's text; the recipes are upserted in order,   *)
(* none twice; and when the loop has ended every recipe was upserted       *)
(* and no vector, id or text is left over.                                 *)
(***************************************************************************)
C24_EachRecipeOnce ==
    (ing.mode = "full" /\ NoFailure) =>
        /\ \A k \in 1..Len(ing.upserts) : Aligned(ing.upserts[k])
        /\ LET ids == IdsOf(ing.upserts)
           IN  /\ \A m \in 1..Len(ids) : ids[m] = m - 1
               /\ Len(ids) <= ing.total
               /\ ing.completed => Len(ids) = ing.total
        /\ ing.completed =>
             /\ ing.batch_vectors = <<>>
             /\ ing.batch_ids = <<>>
             /\ ing.embedding_texts = <<>>
             /\ ing.processed = ing.total

\* Three recipes were ingested with batches of two and embedding batches
\* of one, with no failure: two batch upserts, of recipes 0, 1 and of 2.
C24_Witness ==
    /\ ing.pc = "done"
    /\ ing.mode = "full"
    /\ NoFailure
    /\ ing.total = 3
    /\ ing.batch_size = 2
    /\ ing.embedding_batch_size = 1
    /\ ing.completed
    /\ Len(ing.upserts) = 2
    /\ IdsOf(ing.upserts) = <<0, 1, 2>>

\* In a log of upserts, every batch upsert that raised is followed by the
\* upsert of each of its recipes, once and in order, and by nothing else
\* until the next batch; a batch upsert that returned is followed by the
\* next batch.
FallbackOncePerItem(log) ==
    /\ log # <<>> => log[1].op = "batch"
    /\ \A k \in 1..Len(log) :
         log[k].op = "batch" =>
             LET n == IF log[k].raised THEN Len(log[k].ids) ELSE 0
             IN  /\ k + n <= Len(log)
                 /\ \A m \in 1..n :
                      /\ log[k + m].op = "single"
                      /\ log[k + m].ids = <<log[k].ids[m]>>
                      /\ log[k + m].vectors = <<log[k].vectors[m]>>
                      /\ log[k + m].payloads = <<log[k].payloads[m]>>
                 /\ k + n < Len(log) => log[k + n + 1].op = "batch"

\* The recipes the batch upserts were called with, in order.
BatchedIds == IdsOf(BatchUpserts)

\* The run has ended with the client closed, no upsert's failure having
\* left the loops; if nothing else failed, every recipe went into a batch.
EndedTolerating ==
    /\ ing.pc = "done"
    /\ ing.client = "closed"
    /\ ing.exc.src # "upsert"
    /\ FallbackOncePerItem(ing.upserts)
    /\ ing.exc = NoExc =>
         /\ ing.completed
         /\ BatchedIds = [m \in 1..ing.total |-> m - 1]
         /\ ing.processed = ing.total

(***************************************************************************)
(* C21.  Ingestion tolerates upsert failures: whatever upserts fail, the   *)
(* run ends with the client closed; no failure of an upsert leaves the     *)
(* loops; every batch upsert that raised was followed by one upsert of     *)
(* each of its recipes; and, unless the embedding model failed twice in a  *)
(* row, the loop ran to its end with every recipe in one batch.            *)
(***************************************************************************)
C21_UpsertFailuresTolerated == <>EndedTolerating

\* A batch upsert of two recipes raised, the upsert of its first recipe
\* raised too, the second was upserted, and the next batch followed.
C21_Witness ==
    /\ ing.pc = "done"
    /\ ing.client = "closed"
    /\ ing.completed
    /\ Len(ing.upserts) >= 4
    /\ ing.upserts[1].op = "batch" /\ ing.upserts[1].raised
    /\ Len(ing.upserts[1].ids) = 2
    /\ ing.upserts[2].op = "single" /\ ing.upserts[2].raised
    /\ ing.upserts[3].op = "single" /\ ~ing.upserts[3].raised
    /\ ing.upserts[4].op = "batch"

====
